---- MODULE Spec2Model ----
(***************************************************************************)
(* Source normalizers, winnowing fingerprint engine and corpus-wide        *)
(* similarity comparator of the plagiarism detector (Normalizers/,         *)
(* winnow.py, plagiarism.py, config.py).                                   *)
(*                                                                         *)
(* Canonical text handed to the winnowing functions is a sequence of       *)
(* character codes (ord values); source text handed to the normalizers is  *)
(* a sequence of one-character strings, turned into codes by ord.  Python  *)
(* lists are sequences, Python sets are sets.  Python's None for min_val   *)
(* is the empty sequence <<>>, a value v is <<v>>.                         *)
(***************************************************************************)
EXTENDS Integers, Sequences, FiniteSets, TLC

VARIABLES
    \* ---- winnow.py: one call chain get_kgrams -> rolling_hash -> select_fingerprints
    pc,            \* position in the call chain
    entry,         \* the function the chain was entered at
    text,          \* canonical text handed to get_kgrams
    k,             \* k-gram length
    kgrams,        \* list of k-grams
    base,          \* rolling_hash base
    prime,         \* rolling_hash modulus
    hashes,        \* list of hash values
    window_size,   \* winnowing window size
    win_i,         \* loop index i of select_fingerprints
    min_pos,       \* select_fingerprints: position of the tracked minimum
    min_val,       \* select_fingerprints: tracked minimum (<<>> is None)
    fp_pairs,      \* select_fingerprints: the local set of (value, position)
    fingerprints,  \* value returned by select_fingerprints
    raised,        \* exception raised by the chain, "none" if none
    \* ---- two documents fingerprinted with the same k and w
    doc_text,      \* canonical text of document 1 and 2
    doc_k,
    doc_w,
    doc_done,      \* documents whose fingerprint set has been computed
    doc_fp,        \* fingerprint set per document
    \* ---- plagiarism.py: PlagiarismDetector and its repositories
    config,        \* self.config: the options the detector reads
    disk,          \* per repository: the files on disk and what reading and
                   \* fingerprinting each of them gives
    repo_files,    \* per repository: Repository._filtered_files
    repo_fingerprints, \* per repository: Repository.fingerprints (ordered dict)
    results,       \* self.results
    det_pc,        \* position of the detector: idle, in run()'s loop, ...
    repo_idx,      \* run(): index of the repository the loop is at
    scans,         \* number of compare_all_submissions scans started
    scan_base,     \* len(self.results) when the latest scan started
    exported,      \* the list the latest successful export wrote
    run_log,       \* what the latest run() has done so far, in order
    \* ---- Normalizers/: one normalize(text) call
    n_class,       \* class of the normalizer instance
    n_tokens,      \* the lexemes the input text was written from
    n_text,        \* the local variable text
    n_pc,          \* the step normalize is at
    n_seen,        \* the local dict seen, in insertion order
    n_var_id,      \* the local counter var_id
    \* ---- calls of get_normalizer and robust_winnowing by one process
    c_last,        \* the latest call and what it gave
    c_table,       \* seen and var_id at the end of the latest normalize call
    c_found,       \* the table the latest call found when it began
    \* ---- config.py: ConfigurationBasedObject.__init__ and the options read
    cfg_user,      \* the user's configurations, in decreasing order of priority:
                   \* of each its section plagiarism_detection
    cfg_env,       \* the runtime environment
    cfg_self,      \* self.config['plagiarism_detection']
    cfg_used,      \* k, window, language and threshold as the detector reads them
    cfg_pc         \* "new", "merged" after __init__, "read" after the reads

winVars == <<pc, entry, text, k, kgrams, base, prime, hashes, window_size,
             win_i, min_pos, min_val, fp_pairs, fingerprints, raised>>

docVars == <<doc_text, doc_k, doc_w, doc_done, doc_fp>>

detVars == <<config, disk, repo_files, repo_fingerprints, results, det_pc,
             repo_idx, scans, scan_base, exported, run_log>>

normVars == <<n_class, n_tokens, n_text, n_pc, n_seen, n_var_id>>

callVars == <<c_last, c_table, c_found>>

cfgVars == <<cfg_user, cfg_env, cfg_self, cfg_used, cfg_pc>>

vars == <<winVars, docVars, detVars, normVars, callVars, cfgVars>>

----------------------------------------------------------------------------
(* Bounds of the explored input space *)

\* longest canonical text
MaxLen == 5
\* largest k-gram length
MaxK == 3
\* largest window size
MaxW == 3
\* longest k-gram list handed directly to rolling_hash
MaxGrams == 3
\* longest single k-gram handed directly to rolling_hash
MaxGramLen == 2
\* longest hash list handed directly to select_fingerprints
MaxHashes == 5
\* largest hash value handed directly to select_fingerprints
MaxHash == 2

\* character codes of the texts: 'a', 'b'
Alphabet == {97, 98}

\* (base, prime) pairs; <<256, 101>> are the defaults of rolling_hash
BasePrimes == {<<256, 101>>, <<2, 3>>, <<10, 4>>, <<3, 1>>}

Strings(n) == UNION {[1..m -> Alphabet] : m \in 0..n}

Texts == Strings(MaxLen)

KgramLists == UNION {[1..m -> Strings(MaxGramLen)] : m \in 0..MaxGrams}

HashLists == UNION {[1..m -> 0..MaxHash] : m \in 0..MaxHashes}

----------------------------------------------------------------------------
(* Python helpers *)

Min2(a, b) == IF a <= b THEN a ELSE b

Max2(a, b) == IF a >= b THEN a ELSE b

\* s[a:b] for 0 <= a, with Python's clamping at the end of the sequence
Slice(s, a, b) == SubSeq(s, Max2(a, 0) + 1, Min2(b, Len(s)))

\* a % b for b > 0: Python's remainder has the sign of the divisor
PyMod(a, b) == a % b

\* the remainder a language with truncating division gives
TruncMod(a, b) == IF a >= 0 THEN a % b ELSE 0 - ((0 - a) % b)

RECURSIVE ModPow(_, _, _)
\* pow(b, e, m) for e >= 0
ModPow(b, e, m) == IF e = 0 THEN PyMod(1, m) ELSE PyMod(b * ModPow(b, e - 1, m), m)

Invertible(b, m) == \E x \in 0..(m - 1) : PyMod(b * x, m) = PyMod(1, m)

\* pow(b, -1, m) when b is invertible modulo m
ModInverse(b, m) == CHOOSE x \in 0..(m - 1) : PyMod(b * x, m) = PyMod(1, m)

\* min(window) of a non-empty list
MinOf(window) == CHOOSE v \in {window[j] : j \in 1..Len(window)} :
                     \A j \in 1..Len(window) : v <= window[j]

\* window.index(v), 0-based: the first position holding v
IndexOf(window, v) == (CHOOSE j \in 1..Len(window) :
                          /\ window[j] = v
                          /\ \A j2 \in 1..(j - 1) : window[j2] # v) - 1

----------------------------------------------------------------------------
(* winnow.py *)

get_kgrams_whole(t, kk) ==
    IF Len(t) = 0 \/ kk <= 0 THEN <<>>
    ELSE IF kk > Len(t) THEN <<t>>
    ELSE [j \in 1..(Len(t) - kk + 1) |-> Slice(t, j - 1, j - 1 + kk)]

get_kgrams_short(t, kk) ==
    IF Len(t) = 0 \/ kk <= 0 \/ kk > Len(t) THEN <<>>
    ELSE [j \in 1..(Len(t) - kk) |-> Slice(t, j - 1, j - 1 + kk)]

get_kgrams(t, kk) ==
    IF Len(t) = 0 \/ kk <= 0 \/ kk > Len(t) THEN <<>>
    ELSE [j \in 1..(Len(t) - kk + 1) |-> Slice(t, j - 1, j - 1 + kk)]

Ok(v) == [raised |-> "none", value |-> v]

Raise(e) == [raised |-> e, value |-> <<>>]

RECURSIVE FirstHash_unreduced(_, _, _, _, _)
FirstHash_unreduced(gram, j, h, b, p) ==
    IF j > Len(gram) THEN h
    ELSE FirstHash_unreduced(gram, j + 1, h * b + gram[j], b, p)

RECURSIVE FirstHash(_, _, _, _, _)
\* lines 46-48: Horner loop over the characters of the first k-gram
FirstHash(gram, j, h, b, p) ==
    IF j > Len(gram) THEN h
    ELSE FirstHash(gram, j + 1, PyMod(h * b + gram[j], p), b, p)

RollStep_trunc(h, out_char, in_char, high_order, b, p) ==
    TruncMod((h - out_char * high_order) * b + in_char, p)

\* line 55: the O(1) update
RollStep(h, out_char, in_char, high_order, b, p) ==
    PyMod((h - out_char * high_order) * b + in_char, p)

RECURSIVE RollLoop(_, _, _, _, _, _, _)
\* lines 52-56: kg is 1-based, j is the Python index i + 1
RollLoop(kg, j, h, acc, high_order, b, p) ==
    IF j > Len(kg) THEN acc
    ELSE LET out_char == kg[j - 1][1]
             in_char  == kg[j][Len(kg[j])]
             h2       == RollStep(h, out_char, in_char, high_order, b, p)
         IN  RollLoop(kg, j + 1, h2, Append(acc, h2), high_order, b, p)

LengthCheck_shorter(kg, kk) ==
    \E g \in 1..Len(kg) : Len(kg[g]) < kk

\* line 37: any(len(gram) != k for gram in kgrams)
LengthCheck(kg, kk) ==
    \E g \in 1..Len(kg) : Len(kg[g]) # kk

rolling_hash(kg, b, p) ==
    IF kg = <<>> THEN Ok(<<>>)
    ELSE LET kk == Len(kg[1]) IN
         IF LengthCheck(kg, kk) THEN Raise("ValueError")
         ELSE IF kk = 0 /\ ~Invertible(b, p) THEN Raise("ValueError")
         ELSE IF kk = 0 /\ Len(kg) > 1 THEN Raise("IndexError")
         ELSE LET high_order == IF kk >= 1 THEN ModPow(b, kk - 1, p)
                                ELSE ModInverse(b, p)
                  h0 == FirstHash(kg[1], 1, 0, b, p)
              IN  Ok(RollLoop(kg, 2, h0, <<h0>>, high_order, b, p))

\* lines 79-81: the locals of select_fingerprints before the loop
SelectInit == [fingerprints |-> {}, min_pos |-> -1, min_val |-> <<>>]

SelectIter_keep(hs, w, i, st) ==
    LET window == Slice(hs, i, i + w) IN
    IF st.min_pos < i
    THEN LET mv == MinOf(window)
             mp == i + IndexOf(window, mv)
         IN  [fingerprints |-> st.fingerprints \cup {<<mv, mp>>},
              min_pos |-> mp, min_val |-> <<mv>>]
    ELSE st

\* lines 84-96: one iteration of the loop, i is the 0-based window start
SelectIter(hs, w, i, st) ==
    LET window == Slice(hs, i, i + w) IN
    IF st.min_pos < i
    THEN LET mv == MinOf(window)
             mp == i + IndexOf(window, mv)
         IN  [fingerprints |-> st.fingerprints \cup {<<mv, mp>>},
              min_pos |-> mp, min_val |-> <<mv>>]
    ELSE LET new_val == window[Len(window)] IN
         IF st.min_val = <<>> \/ new_val <= st.min_val[1]
         THEN [fingerprints |-> st.fingerprints \cup {<<new_val, i + w - 1>>},
               min_pos |-> i + w - 1, min_val |-> <<new_val>>]
         ELSE st

SelectRange_atleast1(hs, w) == Max2(Len(hs) - w + 1, 1)

\* line 83: the bound of range(len(hashes) - window_size + 1)
SelectRange(hs, w) == Len(hs) - w + 1

RECURSIVE SelectLoop(_, _, _, _)
\* line 83: for i in range(len(hashes) - window_size + 1)
SelectLoop(hs, w, i, st) ==
    IF i >= SelectRange(hs, w) THEN st
    ELSE SelectLoop(hs, w, i + 1, SelectIter(hs, w, i, st))

SelectValues_pos(pairs) == {f[2] : f \in pairs}

\* line 99
SelectValues(pairs) == {f[1] : f \in pairs}

select_fingerprints(hs, w) ==
    IF hs = <<>> \/ w <= 0 THEN {}
    ELSE SelectValues(SelectLoop(hs, w, 0, SelectInit).fingerprints)

\* lines 121-130 of robust_winnowing: the stages after normalization,
\* rolling_hash with its default base and prime
DefaultBase == 256

DefaultPrime == 101

WinnowCanonical(t, kk, w) ==
    LET r == rolling_hash(get_kgrams(t, kk), DefaultBase, DefaultPrime) IN
    IF r.raised # "none" THEN Raise(r.raised)
    ELSE Ok(select_fingerprints(r.value, w))

----------------------------------------------------------------------------
(* Normalizers/: the regular-expression pipelines of CppNormalizer and      *)
(* PythonNormalizer.  Source text is a sequence of one-character strings.   *)
(* Every re.sub scans left to right for the leftmost match and resumes      *)
(* after it, as Python's re module does.                                    *)

\* [a-z], [A-Z] and [0-9] of the identifier and macro patterns
az == {"a","b","c","d","e","f","g","h","i","j","k","l","m",
       "n","o","p","q","r","s","t","u","v","w","x","y","z"}

AZ == {"A","B","C","D","E","F","G","H","I","J","K","L","M",
       "N","O","P","Q","R","S","T","U","V","W","X","Y","Z"}

d09 == {"0","1","2","3","4","5","6","7","8","9"}

\* \s
whitespace == {" ", "\t", "\n"}

\* \w, the class that decides where \b matches
IsWord(c) == c \in az \cup AZ \cup d09 \cup {"_"}

\* . without re.DOTALL
IsDot(c) == c # "\n"

\* s[i:].startswith(p), positions counted from 1
StartsWith(s, i, p) ==
    /\ i + Len(p) - 1 <= Len(s)
    /\ \A j \in 1..Len(p) : s[i + j - 1] = p[j]

\* first position at or after i where p starts, 0 if there is none
RECURSIVE Find(_, _, _)
Find(s, i, p) ==
    IF i + Len(p) - 1 > Len(s) THEN 0
    ELSE IF StartsWith(s, i, p) THEN i
    ELSE Find(s, i + 1, p)

\* '.*' from position i: the position after the rest of the line
RECURSIVE DotStar(_, _)
DotStar(s, i) ==
    IF i > Len(s) \/ ~IsDot(s[i]) THEN i ELSE DotStar(s, i + 1)

\* re.sub(marker + r'.*', '', text)
RECURSIVE SubLineComment(_, _, _)
SubLineComment(s, i, marker) ==
    IF i > Len(s) THEN <<>>
    ELSE IF StartsWith(s, i, marker)
         THEN SubLineComment(s, DotStar(s, i + Len(marker)), marker)
         ELSE <<s[i]>> \o SubLineComment(s, i + 1, marker)

\* a lazy span open ... close that may cross lines: the position after the
\* first close that follows the opener at i, 0 if the pattern fails at i
SpanEnd(s, i, open, close) ==
    IF StartsWith(s, i, open) /\ Find(s, i + Len(open), close) # 0
    THEN Find(s, i + Len(open), close) + Len(close)
    ELSE 0

\* re.sub(r'/\*.*?\*/', '', text, flags=re.DOTALL)
RECURSIVE SubBlockComment(_, _)
SubBlockComment(s, i) ==
    IF i > Len(s) THEN <<>>
    ELSE IF SpanEnd(s, i, <<"/","*">>, <<"*","/">>) # 0
         THEN SubBlockComment(s, SpanEnd(s, i, <<"/","*">>, <<"*","/">>))
         ELSE <<s[i]>> \o SubBlockComment(s, i + 1)

TripleDouble == <<"\"","\"","\"">>

TripleSingle == <<"'","'","'">>

\* re.sub(r'"""(?:.|\n)*?"""|\'\'\'(?:.|\n)*?\'\'\'', '', text): one scan
\* that tries the first alternative, then the second, at every position
RECURSIVE SubTripleQuoted(_, _)
SubTripleQuoted(s, i) ==
    IF i > Len(s) THEN <<>>
    ELSE IF SpanEnd(s, i, TripleDouble, TripleDouble) # 0
         THEN SubTripleQuoted(s, SpanEnd(s, i, TripleDouble, TripleDouble))
    ELSE IF SpanEnd(s, i, TripleSingle, TripleSingle) # 0
         THEN SubTripleQuoted(s, SpanEnd(s, i, TripleSingle, TripleSingle))
    ELSE <<s[i]>> \o SubTripleQuoted(s, i + 1)

\* '(\\.|.)' at position i: the position after the match, 0 if there is none;
\* the escape alternative is tried first
CharLiteralEnd(s, i) ==
    IF s[i] # "'" THEN 0
    ELSE IF /\ i + 3 <= Len(s)
            /\ s[i + 1] = "\\"
            /\ IsDot(s[i + 2])
            /\ s[i + 3] = "'"
         THEN i + 4
    ELSE IF /\ i + 2 <= Len(s)
            /\ IsDot(s[i + 1])
            /\ s[i + 2] = "'"
         THEN i + 3
    ELSE 0

\* re.sub(r"'(\\.|.)'", "'_C'", text)
RECURSIVE SubCharLiteral(_, _)
SubCharLiteral(s, i) ==
    IF i > Len(s) THEN <<>>
    ELSE IF CharLiteralEnd(s, i) # 0
         THEN <<"'","_","C","'">> \o SubCharLiteral(s, CharLiteralEnd(s, i))
         ELSE <<s[i]>> \o SubCharLiteral(s, i + 1)

\* (?:\\.|[^q\\])*q from position i: the position after the closing quote,
\* 0 if the body runs into the end of the text or into a backslash that
\* escapes nothing
RECURSIVE StringBodyEnd(_, _, _)
StringBodyEnd(s, i, q) ==
    IF i > Len(s) THEN 0
    ELSE IF s[i] = q THEN i + 1
    ELSE IF s[i] = "\\"
         THEN IF i + 1 <= Len(s) /\ IsDot(s[i + 1])
              THEN StringBodyEnd(s, i + 2, q)
              ELSE 0
    ELSE StringBodyEnd(s, i + 1, q)

\* r?f? from position i: the position of the character after the prefix
AfterPrefix(s, i) ==
    LET j == IF i <= Len(s) /\ s[i] = "r" THEN i + 1 ELSE i IN
    IF j <= Len(s) /\ s[j] = "f" THEN j + 1 ELSE j

\* the string pattern at position i, with or without the r?f? prefix
StringLiteralEnd(s, i, q, prefixed) ==
    LET j == IF prefixed THEN AfterPrefix(s, i) ELSE i IN
    IF j <= Len(s) /\ s[j] = q THEN StringBodyEnd(s, j + 1, q) ELSE 0

\* re.sub(r'"(?:\\.|[^"\\])*"', '"_STR"', text) and its prefixed forms
RECURSIVE SubStringLiteral(_, _, _, _)
SubStringLiteral(s, i, q, prefixed) ==
    IF i > Len(s) THEN <<>>
    ELSE IF StringLiteralEnd(s, i, q, prefixed) # 0
         THEN <<q,"_","S","T","R",q>>
              \o SubStringLiteral(s, StringLiteralEnd(s, i, q, prefixed), q, prefixed)
         ELSE <<s[i]>> \o SubStringLiteral(s, i + 1, q, prefixed)

\* text.replace(symbol, f' {symbol} ')
RECURSIVE ReplaceSymbol(_, _, _)
ReplaceSymbol(s, i, symbol) ==
    IF i > Len(s) THEN <<>>
    ELSE (IF s[i] = symbol THEN <<" ", symbol, " ">> ELSE <<s[i]>>)
         \o ReplaceSymbol(s, i + 1, symbol)

\* for symbol in symbols: text = text.replace(symbol, f' {symbol} ')
RECURSIVE SpaceSymbols(_, _, _)
SpaceSymbols(s, symbols, n) ==
    IF n > Len(symbols) THEN s
    ELSE SpaceSymbols(ReplaceSymbol(s, 1, symbols[n]), symbols, n + 1)

\* the position after the run of whitespace that starts at i
RECURSIVE SpaceRun(_, _)
SpaceRun(s, i) ==
    IF i > Len(s) \/ s[i] \notin whitespace THEN i ELSE SpaceRun(s, i + 1)

\* re.sub(r'\s+', ' ', text)
RECURSIVE CollapseWhitespace(_, _)
CollapseWhitespace(s, i) ==
    IF i > Len(s) THEN <<>>
    ELSE IF s[i] \in whitespace
         THEN <<" ">> \o CollapseWhitespace(s, SpaceRun(s, i))
         ELSE <<s[i]>> \o CollapseWhitespace(s, i + 1)

RECURSIVE LStrip(_)
LStrip(s) ==
    IF s # <<>> /\ Head(s) \in whitespace THEN LStrip(Tail(s)) ELSE s

RECURSIVE RStrip(_)
RStrip(s) ==
    IF s # <<>> /\ s[Len(s)] \in whitespace
    THEN RStrip(SubSeq(s, 1, Len(s) - 1))
    ELSE s

\* str.strip()
Strip(s) == RStrip(LStrip(s))

\* the position after the run of characters of class cls that starts at i
RECURSIVE ClassRun(_, _, _)
ClassRun(s, i, cls) ==
    IF i > Len(s) \/ s[i] \notin cls THEN i ELSE ClassRun(s, i + 1, cls)

Define == <<"#","d","e","f","i","n","e">>

\* #define\s+([A-Z_][A-Z0-9_]*) at position i: the position after the match,
\* 0 if there is none
MacroEnd(s, i) ==
    LET j == i + Len(Define)
        n == SpaceRun(s, j) IN
    IF /\ StartsWith(s, i, Define)
       /\ n > j
       /\ n <= Len(s)
       /\ s[n] \in AZ \cup {"_"}
    THEN ClassRun(s, n + 1, AZ \cup d09 \cup {"_"})
    ELSE 0

\* re.sub(r'#define\s+([A-Z_][A-Z0-9_]*)', '#define _MACRO', text)
RECURSIVE SubMacro(_, _)
SubMacro(s, i) ==
    IF i > Len(s) THEN <<>>
    ELSE IF MacroEnd(s, i) # 0
         THEN Define \o <<" ","_","M","A","C","R","O">> \o SubMacro(s, MacroEnd(s, i))
         ELSE <<s[i]>> \o SubMacro(s, i + 1)

\* \b before position i, where s[i] is a word character
BoundaryBefore(s, i) == i = 1 \/ ~IsWord(s[i - 1])

\* \b before position i, where s[i - 1] is a word character
BoundaryAfter(s, i) == i > Len(s) \/ ~IsWord(s[i])

\* re.findall(r'\b[a-zA-Z_][a-zA-Z0-9_]*\b', text): the words that do not
\* start with a digit, in order, repetitions included
RECURSIVE FindIdentifiers(_, _)
FindIdentifiers(s, i) ==
    IF i > Len(s) THEN <<>>
    ELSE IF IsWord(s[i]) /\ BoundaryBefore(s, i)
         THEN LET e == ClassRun(s, i, az \cup AZ \cup d09 \cup {"_"}) IN
              (IF s[i] \in az \cup AZ \cup {"_"}
               THEN <<SubSeq(s, i, e - 1)>>
               ELSE <<>>)
              \o FindIdentifiers(s, e)
         ELSE FindIdentifiers(s, i + 1)

\* re.sub(rf'\b{re.escape(ident)}\b', repl, text)
RECURSIVE SubWord(_, _, _, _)
SubWord(s, i, ident, repl) ==
    IF i > Len(s) THEN <<>>
    ELSE IF /\ StartsWith(s, i, ident)
            /\ BoundaryBefore(s, i)
            /\ BoundaryAfter(s, i + Len(ident))
         THEN repl \o SubWord(s, i + Len(ident), ident, repl)
         ELSE <<s[i]>> \o SubWord(s, i + 1, ident, repl)

DigitChar == <<"0","1","2","3","4","5","6","7","8","9">>

\* str(n) for n >= 0
RECURSIVE Decimal(_)
Decimal(n) ==
    IF n < 10 THEN <<DigitChar[n + 1]>>
    ELSE Decimal(n \div 10) \o <<DigitChar[(n % 10) + 1]>>

\* f"_v{var_id}"
Placeholder(var_id) == <<"_","v">> \o Decimal(var_id)

\* str.isdigit()
IsDigit(ident) == ident # <<>> /\ \A j \in 1..Len(ident) : ident[j] \in d09

\* the start of the identifier pass: seen = {}, var_id = 1, whatever table
\* prev an earlier call ended with
FreshTable_kept(prev) == prev

FreshTable(prev) == [seen |-> <<>>, var_id |-> 1]

\* ident in seen
InSeen(seen, ident) == \E j \in 1..Len(seen) : seen[j].ident = ident

\* seen[ident]
Lookup(seen, ident) ==
    seen[CHOOSE j \in 1..Len(seen) : seen[j].ident = ident].placeholder

\* one iteration of the loop over identifiers for an identifier that is not
\* skipped: the table entry is made on first sight, then every whole-word
\* occurrence in the current text is replaced
ReplaceIdent(st, ident) ==
    LET fresh == ~InSeen(st.seen, ident)
        seen1 == IF fresh
                 THEN Append(st.seen, [ident |-> ident,
                                       placeholder |-> Placeholder(st.var_id)])
                 ELSE st.seen
        var1  == IF fresh THEN st.var_id + 1 ELSE st.var_id IN
    [text |-> SubWord(st.text, 1, ident, Lookup(seen1, ident)),
     seen |-> seen1,
     var_id |-> var1]

\* for ident in identifiers: ... with the skip test of the normalizer
RECURSIVE IdentLoop(_, _, _, _)
IdentLoop(st, identifiers, n, skip) ==
    IF n > Len(identifiers) THEN st
    ELSE IdentLoop(IF identifiers[n] \in skip \/ IsDigit(identifiers[n])
                   THEN st
                   ELSE ReplaceIdent(st, identifiers[n]),
                   identifiers, n + 1, skip)

\* the identifier pass of both normalizers on text s with table tbl
ReplaceIdentifiers(s, tbl, skip) ==
    IdentLoop([text |-> s, seen |-> tbl.seen, var_id |-> tbl.var_id],
              FindIdentifiers(s, 1), 1, skip)

cpp_keywords ==
    { <<"a","u","t","o">>, <<"b","r","e","a","k">>, <<"c","a","s","e">>,
      <<"c","h","a","r">>, <<"c","o","n","s","t">>, <<"c","o","n","t","i","n","u","e">>,
      <<"d","e","f","a","u","l","t">>, <<"d","o">>, <<"d","o","u","b","l","e">>,
      <<"e","l","s","e">>, <<"e","n","u","m">>, <<"e","x","t","e","r","n">>,
      <<"f","l","o","a","t">>, <<"f","o","r">>, <<"g","o","t","o">>,
      <<"i","f">>, <<"i","n","l","i","n","e">>, <<"i","n","t">>,
      <<"l","o","n","g">>, <<"r","e","g","i","s","t","e","r">>, <<"r","e","s","t","r","i","c","t">>,
      <<"r","e","t","u","r","n">>, <<"s","h","o","r","t">>, <<"s","i","g","n","e","d">>,
      <<"s","i","z","e","o","f">>, <<"s","t","a","t","i","c">>, <<"s","t","r","u","c","t">>,
      <<"s","w","i","t","c","h">>, <<"t","y","p","e","d","e","f">>, <<"u","n","i","o","n">>,
      <<"u","n","s","i","g","n","e","d">>, <<"v","o","i","d">>, <<"v","o","l","a","t","i","l","e">>,
      <<"w","h","i","l","e">>, <<"c","l","a","s","s">>, <<"d","e","l","e","t","e">>,
      <<"n","e","w">>, <<"p","r","i","v","a","t","e">>, <<"p","r","o","t","e","c","t","e","d">>,
      <<"p","u","b","l","i","c">>, <<"t","e","m","p","l","a","t","e">>, <<"t","h","i","s">>,
      <<"t","h","r","o","w">>, <<"t","r","y">>, <<"c","a","t","c","h">>,
      <<"u","s","i","n","g">>, <<"n","a","m","e","s","p","a","c","e">> }

\* the placeholders the C/C++ identifier pass skips
cpp_placeholders == { <<"_","S","T","R">>, <<"_","C">>, <<"_","M","A","C","R","O">> }

cpp_symbols == <<"(",")","{","}",";","=","+","-","*","/","<",">","&","|","!">>

\* CppNormalizer.normalize, step by step
CppStripComments(s) == SubBlockComment(SubLineComment(s, 1, <<"/","/">>), 1)

CppLiterals(s) == SubStringLiteral(SubCharLiteral(s, 1), 1, "\"", FALSE)

CppSymbols(s) == SpaceSymbols(s, cpp_symbols, 1)

CppWhitespace(s) == Strip(CollapseWhitespace(s, 1))

CppMacros(s) == SubMacro(s, 1)

CppIdentifiers(s, tbl) == ReplaceIdentifiers(s, tbl, cpp_keywords \cup cpp_placeholders)

kwlist ==
    { <<"F","a","l","s","e">>, <<"N","o","n","e">>, <<"T","r","u","e">>,
      <<"a","n","d">>, <<"a","s">>, <<"a","s","s","e","r","t">>,
      <<"a","s","y","n","c">>, <<"a","w","a","i","t">>, <<"b","r","e","a","k">>,
      <<"c","l","a","s","s">>, <<"c","o","n","t","i","n","u","e">>, <<"d","e","f">>,
      <<"d","e","l">>, <<"e","l","i","f">>, <<"e","l","s","e">>,
      <<"e","x","c","e","p","t">>, <<"f","i","n","a","l","l","y">>, <<"f","o","r">>,
      <<"f","r","o","m">>, <<"g","l","o","b","a","l">>, <<"i","f">>,
      <<"i","m","p","o","r","t">>, <<"i","n">>, <<"i","s">>,
      <<"l","a","m","b","d","a">>, <<"n","o","n","l","o","c","a","l">>, <<"n","o","t">>,
      <<"o","r">>, <<"p","a","s","s">>, <<"r","a","i","s","e">>,
      <<"r","e","t","u","r","n">>, <<"t","r","y">>, <<"w","h","i","l","e">>,
      <<"w","i","t","h">>, <<"y","i","e","l","d">> }

\* dir(builtins) of CPython 3.11
builtin_names ==
    { <<"A","r","i","t","h","m","e","t","i","c","E","r","r","o","r">>,
      <<"A","s","s","e","r","t","i","o","n","E","r","r","o","r">>,
      <<"A","t","t","r","i","b","u","t","e","E","r","r","o","r">>,
      <<"B","a","s","e","E","x","c","e","p","t","i","o","n">>,
      <<"B","a","s","e","E","x","c","e","p","t","i","o","n","G","r","o","u","p">>,
      <<"B","l","o","c","k","i","n","g","I","O","E","r","r","o","r">>,
      <<"B","r","o","k","e","n","P","i","p","e","E","r","r","o","r">>,
      <<"B","u","f","f","e","r","E","r","r","o","r">>,
      <<"B","y","t","e","s","W","a","r","n","i","n","g">>,
      <<"C","h","i","l","d","P","r","o","c","e","s","s","E","r","r","o","r">>,
      <<"C","o","n","n","e","c","t","i","o","n","A","b","o","r","t","e","d","E","r","r","o","r">>,
      <<"C","o","n","n","e","c","t","i","o","n","E","r","r","o","r">>,
      <<"C","o","n","n","e","c","t","i","o","n","R","e","f","u","s","e","d","E","r","r","o","r">>,
      <<"C","o","n","n","e","c","t","i","o","n","R","e","s","e","t","E","r","r","o","r">>,
      <<"D","e","p","r","e","c","a","t","i","o","n","W","a","r","n","i","n","g">>,
      <<"E","O","F","E","r","r","o","r">>,
      <<"E","l","l","i","p","s","i","s">>,
      <<"E","n","c","o","d","i","n","g","W","a","r","n","i","n","g">>,
      <<"E","n","v","i","r","o","n","m","e","n","t","E","r","r","o","r">>,
      <<"E","x","c","e","p","t","i","o","n">>,
      <<"E","x","c","e","p","t","i","o","n","G","r","o","u","p">>,
      <<"F","a","l","s","e">>,
      <<"F","i","l","e","E","x","i","s","t","s","E","r","r","o","r">>,
      <<"F","i","l","e","N","o","t","F","o","u","n","d","E","r","r","o","r">>,
      <<"F","l","o","a","t","i","n","g","P","o","i","n","t","E","r","r","o","r">>,
      <<"F","u","t","u","r","e","W","a","r","n","i","n","g">>,
      <<"G","e","n","e","r","a","t","o","r","E","x","i","t">>,
      <<"I","O","E","r","r","o","r">>,
      <<"I","m","p","o","r","t","E","r","r","o","r">>,
      <<"I","m","p","o","r","t","W","a","r","n","i","n","g">>,
      <<"I","n","d","e","n","t","a","t","i","o","n","E","r","r","o","r">>,
      <<"I","n","d","e","x","E","r","r","o","r">>,
      <<"I","n","t","e","r","r","u","p","t","e","d","E","r","r","o","r">>,
      <<"I","s","A","D","i","r","e","c","t","o","r","y","E","r","r","o","r">>,
      <<"K","e","y","E","r","r","o","r">>,
      <<"K","e","y","b","o","a","r","d","I","n","t","e","r","r","u","p","t">>,
      <<"L","o","o","k","u","p","E","r","r","o","r">>,
      <<"M","e","m","o","r","y","E","r","r","o","r">>,
      <<"M","o","d","u","l","e","N","o","t","F","o","u","n","d","E","r","r","o","r">>,
      <<"N","a","m","e","E","r","r","o","r">>, <<"N","o","n","e">>,
      <<"N","o","t","A","D","i","r","e","c","t","o","r","y","E","r","r","o","r">>,
      <<"N","o","t","I","m","p","l","e","m","e","n","t","e","d">>,
      <<"N","o","t","I","m","p","l","e","m","e","n","t","e","d","E","r","r","o","r">>,
      <<"O","S","E","r","r","o","r">>,
      <<"O","v","e","r","f","l","o","w","E","r","r","o","r">>,
      <<"P","e","n","d","i","n","g","D","e","p","r","e","c","a","t","i","o","n","W","a","r","n","i","n","g">>,
      <<"P","e","r","m","i","s","s","i","o","n","E","r","r","o","r">>,
      <<"P","r","o","c","e","s","s","L","o","o","k","u","p","E","r","r","o","r">>,
      <<"R","e","c","u","r","s","i","o","n","E","r","r","o","r">>,
      <<"R","e","f","e","r","e","n","c","e","E","r","r","o","r">>,
      <<"R","e","s","o","u","r","c","e","W","a","r","n","i","n","g">>,
      <<"R","u","n","t","i","m","e","E","r","r","o","r">>,
      <<"R","u","n","t","i","m","e","W","a","r","n","i","n","g">>,
      <<"S","t","o","p","A","s","y","n","c","I","t","e","r","a","t","i","o","n">>,
      <<"S","t","o","p","I","t","e","r","a","t","i","o","n">>,
      <<"S","y","n","t","a","x","E","r","r","o","r">>,
      <<"S","y","n","t","a","x","W","a","r","n","i","n","g">>,
      <<"S","y","s","t","e","m","E","r","r","o","r">>,
      <<"S","y","s","t","e","m","E","x","i","t">>,
      <<"T","a","b","E","r","r","o","r">>,
      <<"T","i","m","e","o","u","t","E","r","r","o","r">>,
      <<"T","r","u","e">>, <<"T","y","p","e","E","r","r","o","r">>,
      <<"U","n","b","o","u","n","d","L","o","c","a","l","E","r","r","o","r">>,
      <<"U","n","i","c","o","d","e","D","e","c","o","d","e","E","r","r","o","r">>,
      <<"U","n","i","c","o","d","e","E","n","c","o","d","e","E","r","r","o","r">>,
      <<"U","n","i","c","o","d","e","E","r","r","o","r">>,
      <<"U","n","i","c","o","d","e","T","r","a","n","s","l","a","t","e","E","r","r","o","r">>,
      <<"U","n","i","c","o","d","e","W","a","r","n","i","n","g">>,
      <<"U","s","e","r","W","a","r","n","i","n","g">>,
      <<"V","a","l","u","e","E","r","r","o","r">>,
      <<"W","a","r","n","i","n","g">>,
      <<"Z","e","r","o","D","i","v","i","s","i","o","n","E","r","r","o","r">>,
      <<"_","_","b","u","i","l","d","_","c","l","a","s","s","_","_">>,
      <<"_","_","d","e","b","u","g","_","_">>,
      <<"_","_","d","o","c","_","_">>,
      <<"_","_","i","m","p","o","r","t","_","_">>,
      <<"_","_","l","o","a","d","e","r","_","_">>,
      <<"_","_","n","a","m","e","_","_">>,
      <<"_","_","p","a","c","k","a","g","e","_","_">>,
      <<"_","_","s","p","e","c","_","_">>, <<"a","b","s">>,
      <<"a","i","t","e","r">>, <<"a","l","l">>, <<"a","n","e","x","t">>,
      <<"a","n","y">>, <<"a","s","c","i","i">>, <<"b","i","n">>,
      <<"b","o","o","l">>, <<"b","r","e","a","k","p","o","i","n","t">>,
      <<"b","y","t","e","a","r","r","a","y">>, <<"b","y","t","e","s">>,
      <<"c","a","l","l","a","b","l","e">>, <<"c","h","r">>,
      <<"c","l","a","s","s","m","e","t","h","o","d">>,
      <<"c","o","m","p","i","l","e">>, <<"c","o","m","p","l","e","x">>,
      <<"c","o","p","y","r","i","g","h","t">>,
      <<"c","r","e","d","i","t","s">>, <<"d","e","l","a","t","t","r">>,
      <<"d","i","c","t">>, <<"d","i","r">>, <<"d","i","v","m","o","d">>,
      <<"e","n","u","m","e","r","a","t","e">>, <<"e","v","a","l">>,
      <<"e","x","e","c">>, <<"e","x","i","t">>,
      <<"f","i","l","t","e","r">>, <<"f","l","o","a","t">>,
      <<"f","o","r","m","a","t">>,
      <<"f","r","o","z","e","n","s","e","t">>,
      <<"g","e","t","a","t","t","r">>, <<"g","l","o","b","a","l","s">>,
      <<"h","a","s","a","t","t","r">>, <<"h","a","s","h">>,
      <<"h","e","l","p">>, <<"h","e","x">>, <<"i","d">>,
      <<"i","n","p","u","t">>, <<"i","n","t">>,
      <<"i","s","i","n","s","t","a","n","c","e">>,
      <<"i","s","s","u","b","c","l","a","s","s">>, <<"i","t","e","r">>,
      <<"l","e","n">>, <<"l","i","c","e","n","s","e">>,
      <<"l","i","s","t">>, <<"l","o","c","a","l","s">>, <<"m","a","p">>,
      <<"m","a","x">>, <<"m","e","m","o","r","y","v","i","e","w">>,
      <<"m","i","n">>, <<"n","e","x","t">>, <<"o","b","j","e","c","t">>,
      <<"o","c","t">>, <<"o","p","e","n">>, <<"o","r","d">>,
      <<"p","o","w">>, <<"p","r","i","n","t">>,
      <<"p","r","o","p","e","r","t","y">>, <<"q","u","i","t">>,
      <<"r","a","n","g","e">>, <<"r","e","p","r">>,
      <<"r","e","v","e","r","s","e","d">>, <<"r","o","u","n","d">>,
      <<"s","e","t">>, <<"s","e","t","a","t","t","r">>,
      <<"s","l","i","c","e">>, <<"s","o","r","t","e","d">>,
      <<"s","t","a","t","i","c","m","e","t","h","o","d">>,
      <<"s","t","r">>, <<"s","u","m">>, <<"s","u","p","e","r">>,
      <<"t","u","p","l","e">>, <<"t","y","p","e">>, <<"v","a","r","s">>,
      <<"z","i","p">> }

\* protected = set(keyword.kwlist + dir(builtins)) | {"_STR"}
protected == kwlist \cup builtin_names \cup { <<"_","S","T","R">> }

python_symbols == <<"(",")","{","}","[","]",":",",","=","+","-","*","/","<",">","!">>

\* PythonNormalizer.normalize, step by step
PyStripComments(s) == SubTripleQuoted(SubLineComment(s, 1, <<"#">>), 1)

PyLiterals(s) == SubStringLiteral(SubStringLiteral(s, 1, "\"", TRUE), 1, "'", TRUE)

PySymbols(s) == SpaceSymbols(s, python_symbols, 1)

PyWhitespace(s) == CollapseWhitespace(s, 1)

PyIdentifiers(s, tbl) == ReplaceIdentifiers(s, tbl, protected)

\* CppNormalizer.normalize(text); prev is the identifier table the previous
\* call of the process ended with.  The result carries the locals seen and
\* var_id next to the returned text.
CppNormalizer_normalize(s, prev) ==
    CppIdentifiers(CppMacros(CppWhitespace(CppSymbols(CppLiterals(
        CppStripComments(s))))), FreshTable(prev))

\* PythonNormalizer.normalize(text)
PythonNormalizer_normalize(s, prev) ==
    PyIdentifiers(PyWhitespace(PySymbols(PyLiterals(PyStripComments(s)))),
                  FreshTable(prev))

\* normalizer_factory.get_normalizer: the class for a language, or ValueError
get_normalizer_default(language) ==
    IF language = "python" THEN Ok("PythonNormalizer") ELSE Ok("CppNormalizer")

get_normalizer(language) ==
    IF language = "python" THEN Ok("PythonNormalizer")
    ELSE IF language \in {"cpp", "c"} THEN Ok("CppNormalizer")
    ELSE Raise("ValueError")

\* normalizer.normalize(text) of an instance of class cls
normalize(cls, s, prev) ==
    IF cls = "PythonNormalizer" THEN PythonNormalizer_normalize(s, prev)
    ELSE CppNormalizer_normalize(s, prev)

\* the table of a process that has normalized nothing yet
NoTable == [seen |-> <<>>, var_id |-> 1]

\* ASCII in four runs of consecutive codes: 32..64, 65..95, 97..122, 123..126
Ascii32 ==
    <<" ","!","\"","#","$","%","&","'","(",")","*","+",",","-",".","/",
      "0","1","2","3","4","5","6","7","8","9",":",";","<","=",">","?","@">>

Ascii65 ==
    <<"A","B","C","D","E","F","G","H","I","J","K","L","M","N","O","P","Q",
      "R","S","T","U","V","W","X","Y","Z","[","\\","]","^","_">>

Ascii97 ==
    <<"a","b","c","d","e","f","g","h","i","j","k","l","m","n","o","p","q",
      "r","s","t","u","v","w","x","y","z">>

Ascii123 == <<"{","|","}","~">>

\* index of c in the run, 0 if it is not in it
IndexIn(run, c) ==
    IF \E j \in 1..Len(run) : run[j] = c
    THEN CHOOSE j \in 1..Len(run) : run[j] = c
    ELSE 0

\* ord(c)
ord(c) ==
    IF c = "\n" THEN 10
    ELSE IF c = "\t" THEN 9
    ELSE IF IndexIn(Ascii32, c) # 0 THEN 31 + IndexIn(Ascii32, c)
    ELSE IF IndexIn(Ascii65, c) # 0 THEN 64 + IndexIn(Ascii65, c)
    ELSE IF IndexIn(Ascii97, c) # 0 THEN 96 + IndexIn(Ascii97, c)
    ELSE 122 + IndexIn(Ascii123, c)

\* the character codes rolling_hash reads from a text
Codes(s) == [j \in 1..Len(s) |-> ord(s[j])]

\* winnow.robust_winnowing(text, language, k, window_size): the returned set
\* or the exception, and the identifier table the normalizer ended with
robust_winnowing(s, language, kk, w, prev) ==
    LET n == get_normalizer(language) IN
    IF n.raised # "none"
    THEN [raised |-> n.raised, value |-> <<>>, table |-> prev]
    ELSE LET norm == normalize(n.value, s, prev)
             r == WinnowCanonical(Codes(norm.text), kk, w) IN
         [raised |-> r.raised, value |-> r.value,
          table |-> [seen |-> norm.seen, var_id |-> norm.var_id]]

NormIdle ==
    /\ n_class = "none"
    /\ n_tokens = <<>>
    /\ n_text = <<>>
    /\ n_pc = "idle"
    /\ n_seen = <<>>
    /\ n_var_id = 0

NoCall ==
    [fn |-> "none", text |-> <<>>, language |-> "", k |-> 0, w |-> 0,
     raised |-> "none", value |-> <<>>]

CallIdle ==
    /\ c_last = NoCall
    /\ c_table = NoTable
    /\ c_found = NoTable

----------------------------------------------------------------------------
(* plagiarism.py: the corpus and the comparator *)

\* largest number of compare_all_submissions scans of one detector
MaxScans == 2

\* self.repositories: the identifiers are md5 hex digests (model.py line 35),
\* all of one length and distinct
repositories == << <<"a">>, <<"b">> >>

Repos == 1..Len(repositories)

\* relative paths of the files a repository may hold, in os.walk order
FileNames == << <<"x">>, <<"d", "/", "x">> >>

\* values a fingerprint set may hold
FpValues == {1, 2}

\* what read_file followed by robust_winnowing gives for one file:
\* a fingerprint set, or an exception
Outcomes == [ok : {TRUE}, fp : SUBSET FpValues] \cup {[ok |-> FALSE, fp |-> {}]}

\* the files of one repository: a subsequence of FileNames, each with its outcome
DiskOptions ==
    {<<>>}
    \cup {<<[fname |-> FileNames[n], out |-> o]>> : n \in 1..Len(FileNames), o \in Outcomes}
    \cup {<<[fname |-> FileNames[1], out |-> o1], [fname |-> FileNames[2], out |-> o2]>> :
              o1 \in Outcomes, o2 \in Outcomes}

\* plagiarism.py line 99: the default of .get("threshold", 0.5), as a fraction
DefaultThreshold == <<1, 2>>

NoFilter == [threshold |-> <<>>, repo_filter |-> {}, unzip_submissions |-> FALSE,
             files |-> <<>>, exclude_files |-> <<>>]

\* The configurations explored: the values self.config holds when run() and
\* compare_all_submissions read it.  repo_filter and unzip_submissions are
\* options of the section general, the others of plagiarism_detection.
\* threshold is <<>> when the option is not set, else the fraction
\* <<numerator, denominator>>; a glob pattern of files and exclude_files is
\* the set of file names it matches.
Configs ==
    { NoFilter,
      [NoFilter EXCEPT !.threshold = <<0, 1>>],
      [NoFilter EXCEPT !.threshold = <<1, 1>>],
      [NoFilter EXCEPT !.threshold = <<0, 1>>, !.unzip_submissions = TRUE],
      [NoFilter EXCEPT !.repo_filter = {repositories[1]}],
      [NoFilter EXCEPT !.files = << {FileNames[1]} >>, !.threshold = <<0, 1>>],
      [NoFilter EXCEPT !.exclude_files = << {FileNames[1]} >>] }

\* f"{id}/{file}"
FmtPath(id, file) == id \o <<"/">> \o file

\* lines 117-122: the similarity intersection / union, as a fraction
Jaccard_sum(fp1, fp2) ==
    [num |-> Cardinality(fp1 \cap fp2), den |-> Cardinality(fp1) + Cardinality(fp2)]

Jaccard(fp1, fp2) ==
    [num |-> Cardinality(fp1 \cap fp2), den |-> Cardinality(fp1 \cup fp2)]

\* round(jaccard, 4) in ten-thousandths: Python rounds to the nearest, a tie
\* to the even neighbour
Round4(j) ==
    LET q == (j.num * 10000) \div j.den
        r == (j.num * 10000) % j.den
    IN  IF 2 * r > j.den THEN q + 1
        ELSE IF 2 * r < j.den THEN q
        ELSE IF q % 2 = 0 THEN q ELSE q + 1

AtLeast_strict(j, thr) == j.num * thr[2] > thr[1] * j.den

\* line 123: jaccard >= threshold
AtLeast(j, thr) == j.num * thr[2] >= thr[1] * j.den

EmptySkip_never(fp1, fp2) == FALSE

\* line 114: not fp1 or not fp2
EmptySkip(fp1, fp2) == fp1 = {} \/ fp2 = {}

InnerStart_first(i) == 1

\* line 110: range(i + 1, len(all_files)), as a 1-based index
InnerStart(i) == i + 1

\* lines 111-128: the body of the inner loop for the 1-based indices i, j
ComparePair(all, i, j, thr, acc) ==
    LET fp1 == all[i].fp
        fp2 == all[j].fp
    IN  IF EmptySkip(fp1, fp2) THEN acc
        ELSE LET jac == Jaccard(fp1, fp2) IN
             IF jac.den = 0 THEN acc
             ELSE IF AtLeast(jac, thr)
                  THEN Append(acc, [file_1 |-> FmtPath(all[i].id, all[i].fname),
                                    file_2 |-> FmtPath(all[j].id, all[j].fname),
                                    similarity |-> Round4(jac)])
                  ELSE acc

RECURSIVE InnerLoop(_, _, _, _, _)
\* line 110
InnerLoop(all, i, j, thr, acc) ==
    IF j > Len(all) THEN acc
    ELSE InnerLoop(all, i, j + 1, thr, ComparePair(all, i, j, thr, acc))

RECURSIVE OuterLoop(_, _, _, _)
\* line 109
OuterLoop(all, i, thr, acc) ==
    IF i > Len(all) THEN acc
    ELSE OuterLoop(all, i + 1, thr, InnerLoop(all, i, InnerStart(i), thr, acc))

RECURSIVE AllFilesFrom(_, _)
\* lines 100-107: every repository has the attribute fingerprints
\* (model.py line 41), so no repository is skipped at line 103
AllFilesFrom(fps, r) ==
    IF r > Len(repositories) THEN <<>>
    ELSE [n \in 1..Len(fps[r]) |->
             [id |-> repositories[r], fname |-> fps[r][n].fname, fp |-> fps[r][n].fp]]
         \o AllFilesFrom(fps, r + 1)

AllFiles(fps) == AllFilesFrom(fps, 1)

\* line 99
Threshold(cfg) == IF cfg.threshold = <<>> THEN DefaultThreshold ELSE cfg.threshold

FingerprintsAfterScan_pruned(fps) ==
    [r \in DOMAIN fps |-> SelectSeq(fps[r], LAMBDA e : e.fp # {})]

\* lines 100-128: repo.fingerprints after the scan.  The scan reads the sets
\* (not fp, fp1 & fp2, fp1 | fp2, len) and builds new ones; it assigns to no
\* repo.fingerprints and calls no mutating method of a set
FingerprintsAfterScan(fps) == fps

\* lines 95-128: self.results after the scan
compare_all_submissions(cfg, fps, res) ==
    OuterLoop(AllFiles(fps), 1, Threshold(cfg), res)

\* r.match(f) for a compiled pattern
Matches(pattern, f) == f \in pattern

RECURSIVE KeepIncluded(_, _, _)
\* line 52: keep the files some pattern matches, in order
KeepIncluded(fs, n, pats) ==
    IF n > Len(fs) THEN <<>>
    ELSE (IF \E m \in 1..Len(pats) : Matches(pats[m], fs[n]) THEN <<fs[n]>> ELSE <<>>)
         \o KeepIncluded(fs, n + 1, pats)

RECURSIVE KeepNotExcluded(_, _, _)
\* line 54: keep the files no pattern matches, in order
KeepNotExcluded(fs, n, pats) ==
    IF n > Len(fs) THEN <<>>
    ELSE (IF \A m \in 1..Len(pats) : ~Matches(pats[m], fs[n]) THEN <<fs[n]>> ELSE <<>>)
         \o KeepNotExcluded(fs, n + 1, pats)

\* lines 50-54
FilterFiles(cfg, fs) ==
    LET a == IF cfg.files # <<>> THEN KeepIncluded(fs, 1, cfg.files) ELSE fs
    IN  IF cfg.exclude_files # <<>> THEN KeepNotExcluded(a, 1, cfg.exclude_files) ELSE a

\* model.py lines 122-137: the files property
Files(rf, dsk) == IF rf.set THEN rf.list ELSE [n \in 1..Len(dsk) |-> dsk[n].fname]

\* what read_file and robust_winnowing give for a file of the repository;
\* a file that is not on disk cannot be read
ReadAndWinnow(dsk, f) ==
    IF \E n \in 1..Len(dsk) : dsk[n].fname = f
    THEN dsk[CHOOSE n \in 1..Len(dsk) : dsk[n].fname = f].out
    ELSE [ok |-> FALSE, fp |-> {}]

RECURSIVE GenerateFrom_abort(_, _, _)
GenerateFrom_abort(fs, n, dsk) ==
    IF n > Len(fs) THEN <<>>
    ELSE LET o == ReadAndWinnow(dsk, fs[n]) IN
         IF o.ok THEN <<[fname |-> fs[n], fp |-> o.fp]>> \o GenerateFrom_abort(fs, n + 1, dsk)
         ELSE <<>>

RECURSIVE GenerateFrom(_, _, _)
\* lines 87-93: an exception leaves the file without an entry
GenerateFrom(fs, n, dsk) ==
    IF n > Len(fs) THEN <<>>
    ELSE LET o == ReadAndWinnow(dsk, fs[n]) IN
         (IF o.ok THEN <<[fname |-> fs[n], fp |-> o.fp]>> ELSE <<>>)
         \o GenerateFrom(fs, n + 1, dsk)

\* lines 85-93: repo.fingerprints after generate_fingerprints
generate_fingerprints(fs, dsk) == GenerateFrom(fs, 1, dsk)

----------------------------------------------------------------------------
(* config.py: the merge of the user's configuration into the defaults, and   *)
(* the options PlagiarismDetector reads from the result.  A dict is a        *)
(* function from its keys to their values.                                    *)

\* DEFAULT_CONFIGURATION['plagiarism_detection'] (config.py lines 59-64)
DefaultSection ==
    [enabled |-> FALSE,
     files |-> <<>>,
     exclude_files |-> <<"**/.DS_Store", "**/.*">>,
     normalize_pattern |-> "\\s|(//.*)|(/\\*(\\s\\S)*\\*/)"]

\* d.get(key, default)
Get(d, key, default) == IF key \in DOMAIN d THEN d[key] ELSE default

\* f'{option}_{environment}'
EnvOption(option, environment) == option \o "_" \o environment

\* config.py lines 87-92: the value of one option after one user configuration
MergeOption(current, c, option, environment) ==
    IF EnvOption(option, environment) \in DOMAIN c
    THEN c[EnvOption(option, environment)]
    ELSE IF option \in DOMAIN c THEN c[option]
    ELSE current

\* config.py line 86: for option in self.config[key]
MergedOptions(section) == DOMAIN section

\* config.py lines 86-92: the section after one user configuration
MergeSection(section, c, environment) ==
    [option \in MergedOptions(section) |->
        MergeOption(section[option], c, option, environment)]

RECURSIVE MergeAll(_, _, _, _)
\* config.py line 83: for c in config[::-1], n is the 1-based index of c
MergeAll(section, configs, n, environment) ==
    IF n < 1 THEN section
    ELSE MergeAll(MergeSection(section, configs[n], environment), configs, n - 1,
                  environment)

\* config.py lines 78-99: self.config['plagiarism_detection'] after __init__
MergedSection(configs, environment) ==
    MergeAll(DefaultSection, configs, Len(configs), environment)

\* plagiarism.py lines 81-83 and 99: the defaults of the four reads
DefaultK == 25

DefaultWindow == 21

DefaultLanguage == "python"

\* plagiarism.py lines 81-83 and 99
ReadParameters(section) ==
    [k |-> Get(section, "k", DefaultK),
     window |-> Get(section, "window", DefaultWindow),
     language |-> Get(section, "language", DefaultLanguage),
     threshold |-> Get(section, "threshold", DefaultThreshold)]

NoParameters == [k |-> 0, window |-> 0, language |-> "", threshold |-> <<>>]

CfgIdle ==
    /\ cfg_user = <<>>
    /\ cfg_env = "prod"
    /\ cfg_self = <<>>
    /\ cfg_used = NoParameters
    /\ cfg_pc = "idle"

----------------------------------------------------------------------------
(* The call chain of winnow.py as a state machine.  A chain is entered at    *)
(* get_kgrams (the pipeline of robust_winnowing after normalization), at     *)
(* rolling_hash or at select_fingerprints (direct calls, as the unit tests   *)
(* make them).                                                               *)

\* one step of run(): "skip" or "generate" for the repository at the 1-based
\* index repo of self.repositories, "compare" and "export" with repo 0
Step(ev, repo) == [ev |-> ev, repo |-> repo]

\* Repository.__init__ (model.py lines 39-41)
NewRepoFiles == [set |-> FALSE, list |-> <<>>]

DetIdle ==
    /\ config = NoFilter
    /\ disk = [r \in Repos |-> <<>>]
    /\ repo_files = [r \in Repos |-> NewRepoFiles]
    /\ repo_fingerprints = [r \in Repos |-> <<>>]
    /\ results = <<>>
    /\ det_pc = "idle"
    /\ repo_idx = 0
    /\ scans = 0
    /\ scan_base = 0
    /\ exported = <<>>
    /\ run_log = <<>>

KRange == (0 - 1)..MaxK

WRange == (0 - 1)..MaxW

DocIdle ==
    /\ doc_text = <<>>
    /\ doc_k = 0
    /\ doc_w = 0
    /\ doc_done = {}
    /\ doc_fp = <<>>

LoopIdle ==
    /\ win_i = 0
    /\ min_pos = SelectInit.min_pos
    /\ min_val = SelectInit.min_val
    /\ fp_pairs = SelectInit.fingerprints
    /\ fingerprints = {}
    /\ raised = "none"

InitWinnow ==
    /\ \/ /\ entry = "get_kgrams"
          /\ text \in Texts
          /\ k \in KRange
          /\ kgrams = <<>>
          /\ hashes = <<>>
          /\ window_size \in WRange
          /\ \E bp \in BasePrimes : base = bp[1] /\ prime = bp[2]
       \/ /\ entry = "rolling_hash"
          /\ text = <<>>
          /\ k = 0
          /\ kgrams \in KgramLists
          /\ hashes = <<>>
          /\ window_size = 1
          /\ \E bp \in BasePrimes : base = bp[1] /\ prime = bp[2]
       \/ /\ entry = "select_fingerprints"
          /\ text = <<>>
          /\ k = 0
          /\ kgrams = <<>>
          /\ hashes \in HashLists
          /\ window_size \in WRange
          /\ base = DefaultBase
          /\ prime = DefaultPrime
    /\ pc = entry
    /\ LoopIdle
    /\ DocIdle
    /\ DetIdle
    /\ NormIdle
    /\ CallIdle
    /\ CfgIdle

\* winnow.py line 122
GetKgrams ==
    /\ pc = "get_kgrams"
    /\ kgrams' = get_kgrams(text, k)
    /\ pc' = "rolling_hash"
    /\ UNCHANGED <<entry, text, k, base, prime, hashes, window_size, win_i,
                   min_pos, min_val, fp_pairs, fingerprints, raised>>
    /\ UNCHANGED docVars
    /\ UNCHANGED <<detVars, normVars, callVars, cfgVars>>

\* winnow.py line 125 (lines 21-58)
RollingHash ==
    /\ pc = "rolling_hash"
    /\ LET r == rolling_hash(kgrams, base, prime) IN
       /\ raised' = r.raised
       /\ hashes' = r.value
       /\ pc' = IF r.raised # "none" THEN "raised"
                ELSE IF entry = "rolling_hash" THEN "done"
                ELSE "select_fingerprints"
    /\ UNCHANGED <<entry, text, k, kgrams, base, prime, window_size, win_i,
                   min_pos, min_val, fp_pairs, fingerprints>>
    /\ UNCHANGED docVars
    /\ UNCHANGED <<detVars, normVars, callVars, cfgVars>>

\* winnow.py lines 76-81: the early return, else the locals before the loop
SelectEnter ==
    /\ pc = "select_fingerprints"
    /\ IF hashes = <<>> \/ window_size <= 0
       THEN /\ pc' = "done"
            /\ fingerprints' = {}
            /\ UNCHANGED <<win_i, min_pos, min_val, fp_pairs>>
       ELSE /\ pc' = "select_loop"
            /\ win_i' = 0
            /\ min_pos' = SelectInit.min_pos
            /\ min_val' = SelectInit.min_val
            /\ fp_pairs' = SelectInit.fingerprints
            /\ UNCHANGED fingerprints
    /\ UNCHANGED <<entry, text, k, kgrams, base, prime, hashes, window_size, raised>>
    /\ UNCHANGED docVars
    /\ UNCHANGED <<detVars, normVars, callVars, cfgVars>>

\* winnow.py lines 83-96: one iteration
SelectStep ==
    /\ pc = "select_loop"
    /\ win_i < SelectRange(hashes, window_size)
    /\ LET st == SelectIter(hashes, window_size, win_i,
                            [fingerprints |-> fp_pairs, min_pos |-> min_pos,
                             min_val |-> min_val]) IN
       /\ fp_pairs' = st.fingerprints
       /\ min_pos' = st.min_pos
       /\ min_val' = st.min_val
    /\ win_i' = win_i + 1
    /\ UNCHANGED <<pc, entry, text, k, kgrams, base, prime, hashes, window_size,
                   fingerprints, raised>>
    /\ UNCHANGED docVars
    /\ UNCHANGED <<detVars, normVars, callVars, cfgVars>>

\* winnow.py line 99
SelectReturn ==
    /\ pc = "select_loop"
    /\ win_i >= SelectRange(hashes, window_size)
    /\ fingerprints' = SelectValues(fp_pairs)
    /\ pc' = "done"
    /\ UNCHANGED <<entry, text, k, kgrams, base, prime, hashes, window_size, win_i,
                   min_pos, min_val, fp_pairs, raised>>
    /\ UNCHANGED docVars
    /\ UNCHANGED <<detVars, normVars, callVars, cfgVars>>

NextWinnow ==
    \/ GetKgrams
    \/ RollingHash
    \/ SelectEnter
    \/ SelectStep
    \/ SelectReturn

SpecWinnow == InitWinnow /\ [][NextWinnow]_vars

----------------------------------------------------------------------------
(* Two canonical texts fingerprinted with the same k and window size, each   *)
(* by the stages of robust_winnowing that follow normalization.              *)

\* longest text of the pair
PairMaxLen == 4

WinIdle ==
    /\ pc = "idle"
    /\ entry = "none"
    /\ text = <<>>
    /\ k = 0
    /\ kgrams = <<>>
    /\ base = DefaultBase
    /\ prime = DefaultPrime
    /\ hashes = <<>>
    /\ window_size = 0
    /\ LoopIdle

\* canonical texts of digits: "31", "18", "318" (numbers are left as they are
\* by both normalizers)
DigitTexts == {<<51, 49>>, <<49, 56>>, <<51, 49, 56>>}

PairTexts == Strings(PairMaxLen) \cup DigitTexts

InitPair ==
    /\ doc_text \in [1..2 -> PairTexts]
    /\ doc_k \in 1..MaxK
    /\ doc_w \in 1..MaxW
    /\ doc_done = {}
    /\ doc_fp = [d \in 1..2 |-> {}]
    /\ WinIdle
    /\ DetIdle
    /\ NormIdle
    /\ CallIdle
    /\ CfgIdle

\* winnow.py lines 121-130 for document d
Fingerprint(d) ==
    /\ d \notin doc_done
    /\ LET r == WinnowCanonical(doc_text[d], doc_k, doc_w) IN
       /\ r.raised = "none"
       /\ doc_fp' = [doc_fp EXCEPT ![d] = r.value]
    /\ doc_done' = doc_done \cup {d}
    /\ UNCHANGED <<doc_text, doc_k, doc_w>>
    /\ UNCHANGED winVars
    /\ UNCHANGED <<detVars, normVars, callVars, cfgVars>>

NextPair == \E d \in 1..2 : Fingerprint(d)

SpecPair == InitPair /\ [][NextPair]_vars

----------------------------------------------------------------------------
(* PlagiarismDetector as a state machine: run() walks the repositories,      *)
(* then compares and exports; compare_all_submissions may also be called     *)
(* directly.  The disk is what the endpoints downloaded; it stays the same    *)
(* from one run to the next.                                                 *)

InitDetector ==
    /\ config \in Configs
    /\ disk \in [Repos -> DiskOptions]
    /\ repo_files = [r \in Repos |-> NewRepoFiles]
    /\ repo_fingerprints = [r \in Repos |-> <<>>]
    /\ results = <<>>
    /\ det_pc = "idle"
    /\ repo_idx = 0
    /\ scans = 0
    /\ scan_base = 0
    /\ exported = <<>>
    /\ run_log = <<>>
    /\ WinIdle
    /\ DocIdle
    /\ NormIdle
    /\ CallIdle
    /\ CfgIdle

\* plagiarism.py lines 26-27: run() is called
RunStart ==
    /\ det_pc = "idle"
    /\ scans < MaxScans
    /\ det_pc' = "repos"
    /\ repo_idx' = 1
    /\ run_log' = <<>>
    /\ UNCHANGED <<config, disk, repo_files, repo_fingerprints, results, scans,
                   scan_base, exported>>
    /\ UNCHANGED <<winVars, docVars, normVars, callVars, cfgVars>>

\* plagiarism.py lines 29-57: one iteration of the loop over self.repositories
RunRepo ==
    /\ det_pc = "repos"
    /\ repo_idx <= Len(repositories)
    /\ \/ \* lines 30-32: not in the filter list
          /\ config.repo_filter # {}
          /\ repositories[repo_idx] \notin config.repo_filter
          /\ run_log' = Append(run_log, Step("skip", repo_idx))
          /\ UNCHANGED <<repo_files, repo_fingerprints>>
       \/ \* lines 37-47: the repository has an update, its endpoint supports
          \* unzip and the archive is corrupt (BadZipFile)
          /\ ~(config.repo_filter # {} /\ repositories[repo_idx] \notin config.repo_filter)
          /\ config.unzip_submissions
          /\ run_log' = Append(run_log, Step("skip", repo_idx))
          /\ UNCHANGED <<repo_files, repo_fingerprints>>
       \/ \* lines 49-57
          /\ ~(config.repo_filter # {} /\ repositories[repo_idx] \notin config.repo_filter)
          /\ LET filtered_files ==
                     FilterFiles(config, Files(repo_files[repo_idx], disk[repo_idx])) IN
             /\ repo_files' = [repo_files EXCEPT
                                  ![repo_idx] = [set |-> TRUE, list |-> filtered_files]]
             /\ repo_fingerprints' =
                    [repo_fingerprints EXCEPT
                        ![repo_idx] = generate_fingerprints(filtered_files, disk[repo_idx])]
             /\ run_log' = Append(run_log, Step("generate", repo_idx))
    /\ repo_idx' = repo_idx + 1
    /\ UNCHANGED <<config, disk, results, det_pc, scans, scan_base, exported>>
    /\ UNCHANGED <<winVars, docVars, normVars, callVars, cfgVars>>

RunCompare_early ==
    /\ det_pc = "repos"
    /\ repo_idx >= Len(repositories)
    /\ results' = compare_all_submissions(config, repo_fingerprints, results)
    /\ scan_base' = Len(results)
    /\ scans' = scans + 1
    /\ det_pc' = "export"
    /\ run_log' = Append(run_log, Step("compare", 0))
    /\ repo_fingerprints' = FingerprintsAfterScan(repo_fingerprints)
    /\ UNCHANGED <<config, disk, repo_files, repo_idx, exported>>
    /\ UNCHANGED <<winVars, docVars, normVars, callVars, cfgVars>>

\* plagiarism.py line 59: the scan inside run()
RunCompare ==
    /\ det_pc = "repos"
    /\ repo_idx > Len(repositories)
    /\ results' = compare_all_submissions(config, repo_fingerprints, results)
    /\ scan_base' = Len(results)
    /\ scans' = scans + 1
    /\ det_pc' = "export"
    /\ run_log' = Append(run_log, Step("compare", 0))
    /\ repo_fingerprints' = FingerprintsAfterScan(repo_fingerprints)
    /\ UNCHANGED <<config, disk, repo_files, repo_idx, exported>>
    /\ UNCHANGED <<winVars, docVars, normVars, callVars, cfgVars>>

\* plagiarism.py lines 95-128: compare_all_submissions called on its own
CallCompare ==
    /\ det_pc = "idle"
    /\ scans < MaxScans
    /\ results' = compare_all_submissions(config, repo_fingerprints, results)
    /\ scan_base' = Len(results)
    /\ scans' = scans + 1
    /\ repo_fingerprints' = FingerprintsAfterScan(repo_fingerprints)
    /\ UNCHANGED <<config, disk, repo_files, det_pc, repo_idx, exported, run_log>>
    /\ UNCHANGED <<winVars, docVars, normVars, callVars, cfgVars>>

\* plagiarism.py lines 130-143: the export writes self.results, or fails and
\* only logs
ExportResults ==
    /\ det_pc = "export"
    /\ \E written \in BOOLEAN :
           exported' = IF written THEN results ELSE exported
    /\ det_pc' = "idle"
    /\ run_log' = Append(run_log, Step("export", 0))
    /\ UNCHANGED <<config, disk, repo_files, repo_fingerprints, results, repo_idx,
                   scans, scan_base>>
    /\ UNCHANGED <<winVars, docVars, normVars, callVars, cfgVars>>

NextDetector ==
    \/ RunStart
    \/ RunRepo
    \/ RunCompare
    \/ CallCompare
    \/ ExportResults

SpecDetector == InitDetector /\ [][NextDetector]_vars

\* The detector followed through whole runs.  A file either cannot be read or
\* fingerprinted, or gives the empty set or the set {1}.
RunOutcomes == {o \in Outcomes : o.fp \subseteq {1}}

RunDiskOptions ==
    {d \in DiskOptions : \A n \in 1..Len(d) : d[n].out \in RunOutcomes}

RunConfigs == {c \in Configs : c.threshold # <<1, 1>> /\ c.files = <<>>}

InitRun ==
    /\ config \in RunConfigs
    /\ disk \in [Repos -> RunDiskOptions]
    /\ repo_files = [r \in Repos |-> NewRepoFiles]
    /\ repo_fingerprints = [r \in Repos |-> <<>>]
    /\ results = <<>>
    /\ det_pc = "idle"
    /\ repo_idx = 0
    /\ scans = 0
    /\ scan_base = 0
    /\ exported = <<>>
    /\ run_log = <<>>
    /\ WinIdle
    /\ DocIdle
    /\ NormIdle
    /\ CallIdle
    /\ CfgIdle

\* run() is a sequential method: once called it goes on to its next statement
\* (the loop body, the comparison, the export) until it returns
SpecRun ==
    /\ InitRun
    /\ [][NextDetector]_vars
    /\ WF_vars(RunRepo)
    /\ WF_vars(RunCompare)
    /\ WF_vars(ExportResults)

----------------------------------------------------------------------------
(* A PlagiarismDetector is constructed from the user's configurations and    *)
(* then reads k, window, language and threshold.                             *)

\* longest list of user configurations
MaxConfigs == 2

\* what a user configuration may set in its section plagiarism_detection
UserValues ==
    [k |-> 5, window |-> 4, language |-> "c", threshold |-> <<9, 10>>,
     files |-> <<"*.c">>, k_prod |-> 7]

UserSections == {[o \in S |-> UserValues[o]] : S \in SUBSET DOMAIN UserValues}

Environments == {"prod", "test"}

InitConfig ==
    /\ cfg_user \in UNION {[1..n -> UserSections] : n \in 0..MaxConfigs}
    /\ cfg_env \in Environments
    /\ cfg_self = <<>>
    /\ cfg_used = NoParameters
    /\ cfg_pc = "new"
    /\ WinIdle
    /\ DocIdle
    /\ DetIdle
    /\ NormIdle
    /\ CallIdle

\* config.py lines 71-99: PlagiarismDetector(config, environment)
Construct ==
    /\ cfg_pc = "new"
    /\ cfg_self' = MergedSection(cfg_user, cfg_env)
    /\ cfg_pc' = "merged"
    /\ UNCHANGED <<cfg_user, cfg_env, cfg_used>>
    /\ UNCHANGED <<winVars, docVars, detVars, normVars, callVars>>

\* plagiarism.py lines 81-83 and 99: generate_fingerprints and
\* compare_all_submissions read their options
ReadOptions ==
    /\ cfg_pc = "merged"
    /\ cfg_used' = ReadParameters(cfg_self)
    /\ cfg_pc' = "read"
    /\ UNCHANGED <<cfg_user, cfg_env, cfg_self>>
    /\ UNCHANGED <<winVars, docVars, detVars, normVars, callVars>>

NextConfig == Construct \/ ReadOptions

SpecConfig == InitConfig /\ [][NextConfig]_vars

----------------------------------------------------------------------------
(* One normalize(text) call as a state machine.  The input is built from    *)
(* lexemes (identifiers, keywords, numbers, whitespace, punctuation,        *)
(* literals, comments, #define lines), so that its lexical structure is     *)
(* known; the normalizer only ever sees the rendered characters.            *)

\* most lexemes in one input text
MaxTokens == 3

\* a lexeme: what opens it, its body, what closes it
Lexeme(kind, open, body, close) ==
    [kind |-> kind, open |-> open, body |-> body, close |-> close]

Word(kind, body) == Lexeme(kind, <<>>, body, <<>>)

\* lexemes that mean the same to both languages
CommonLexemes ==
    { Word("ident", <<"x">>), Word("ident", <<"_","v","1">>),
      Word("keyword", <<"i","f">>), Word("number", <<"1">>),
      Word("space", <<" ">>), Word("space", <<"\n">>),
      Word("punct", <<"(">>), Word("punct", <<",">>), Word("punct", <<";">>),
      Lexeme("string", <<"\"">>, <<"a">>, <<"\"">>) }

CppLexemes ==
    CommonLexemes \cup
    { Word("marker", <<"_","C">>),
      Lexeme("char", <<"'">>, <<"a">>, <<"'">>),
      Lexeme("comment", <<"/","/">>, <<"7">>, <<"\n">>),
      Lexeme("comment", <<"/","*">>, <<"7">>, <<"*","/">>),
      Lexeme("comment", <<"/","*">>, <<"/","/">>, <<"*","/">>),
      Lexeme("define", Define \o <<" ">>, <<"A">>, <<>>),
      Lexeme("define", Define \o <<" ">>, <<"a">>, <<>>),
      Lexeme("define", Define \o <<" ">>, <<"A","b">>, <<>>) }

PythonLexemes ==
    CommonLexemes \cup
    { Word("marker", <<"_","S","T","R">>),
      Lexeme("string", <<"'">>, <<"a">>, <<"'">>),
      Lexeme("comment", <<"#">>, <<"7">>, <<"\n">>),
      Lexeme("comment", TripleDouble, <<"7">>, TripleDouble),
      Lexeme("comment", TripleDouble, <<"#">>, TripleDouble) }

Lexemes(cls) == IF cls = "PythonNormalizer" THEN PythonLexemes ELSE CppLexemes

\* the characters of one lexeme and of a sequence of lexemes
RenderOne(lx) == lx.open \o lx.body \o lx.close

RECURSIVE Render(_)
Render(toks) ==
    IF toks = <<>> THEN <<>> ELSE RenderOne(Head(toks)) \o Render(Tail(toks))

\* two neighbours keep their own boundaries when rendered side by side: two
\* words do not run together, and a closing quote is not followed by the
\* same quote
Separate(a, b) ==
    LET ra == RenderOne(a)
        rb == RenderOne(b) IN
    /\ ~(IsWord(ra[Len(ra)]) /\ IsWord(rb[1]))
    /\ ~(ra[Len(ra)] \in {"\"", "'"} /\ rb[1] = ra[Len(ra)])

TokenSeqs(cls) ==
    { toks \in UNION { [1..n -> Lexemes(cls)] : n \in 0..MaxTokens } :
        \A j \in 1..(Len(toks) - 1) : Separate(toks[j], toks[j + 1]) }

Classes == {"CppNormalizer", "PythonNormalizer"}

InitNormalize ==
    /\ n_class \in Classes
    /\ n_tokens \in TokenSeqs(n_class)
    /\ n_text = Render(n_tokens)
    /\ n_pc = "comments"
    /\ n_seen = <<>>
    /\ n_var_id = 0
    /\ WinIdle
    /\ DocIdle
    /\ DetIdle
    /\ CallIdle
    /\ CfgIdle

\* Step 1 (cpp lines 14-16, python lines 8-10)
StripComments ==
    /\ n_pc = "comments"
    /\ n_text' = IF n_class = "PythonNormalizer"
                 THEN PyStripComments(n_text)
                 ELSE CppStripComments(n_text)
    /\ n_pc' = "literals"
    /\ UNCHANGED <<n_class, n_tokens, n_seen, n_var_id>>
    /\ UNCHANGED <<winVars, docVars, detVars, callVars, cfgVars>>

\* Step 2 (cpp lines 18-20, python lines 12-14)
NormalizeLiterals ==
    /\ n_pc = "literals"
    /\ n_text' = IF n_class = "PythonNormalizer"
                 THEN PyLiterals(n_text)
                 ELSE CppLiterals(n_text)
    /\ n_pc' = "symbols"
    /\ UNCHANGED <<n_class, n_tokens, n_seen, n_var_id>>
    /\ UNCHANGED <<winVars, docVars, detVars, callVars, cfgVars>>

\* Step 3 (cpp lines 22-24, python lines 16-18)
SpaceAroundSymbols ==
    /\ n_pc = "symbols"
    /\ n_text' = IF n_class = "PythonNormalizer"
                 THEN PySymbols(n_text)
                 ELSE CppSymbols(n_text)
    /\ n_pc' = "whitespace"
    /\ UNCHANGED <<n_class, n_tokens, n_seen, n_var_id>>
    /\ UNCHANGED <<winVars, docVars, detVars, callVars, cfgVars>>

\* Step 4 (cpp lines 26-27, python lines 20-21); the C/C++ normalizer goes
\* on to the macro step, the Python normalizer to the identifier pass
NormalizeWhitespace ==
    /\ n_pc = "whitespace"
    /\ n_text' = IF n_class = "PythonNormalizer"
                 THEN PyWhitespace(n_text)
                 ELSE CppWhitespace(n_text)
    /\ n_pc' = IF n_class = "PythonNormalizer" THEN "identifiers" ELSE "macros"
    /\ UNCHANGED <<n_class, n_tokens, n_seen, n_var_id>>
    /\ UNCHANGED <<winVars, docVars, detVars, callVars, cfgVars>>

\* Step 5 of CppNormalizer (lines 29-30)
NormalizeMacros ==
    /\ n_pc = "macros"
    /\ n_text' = CppMacros(n_text)
    /\ n_pc' = "identifiers"
    /\ UNCHANGED <<n_class, n_tokens, n_seen, n_var_id>>
    /\ UNCHANGED <<winVars, docVars, detVars, callVars, cfgVars>>

\* the identifier pass and the return (cpp lines 32-46, python lines 23-36)
ReplaceUserIdentifiers ==
    /\ n_pc = "identifiers"
    /\ LET r == IF n_class = "PythonNormalizer"
                THEN PyIdentifiers(n_text, FreshTable(NoTable))
                ELSE CppIdentifiers(n_text, FreshTable(NoTable)) IN
       /\ n_text' = r.text
       /\ n_seen' = r.seen
       /\ n_var_id' = r.var_id
    /\ n_pc' = "done"
    /\ UNCHANGED <<n_class, n_tokens>>
    /\ UNCHANGED <<winVars, docVars, detVars, callVars, cfgVars>>

NextNormalize ==
    \/ StripComments
    \/ NormalizeLiterals
    \/ SpaceAroundSymbols
    \/ NormalizeWhitespace
    \/ NormalizeMacros
    \/ ReplaceUserIdentifiers

SpecNormalize == InitNormalize /\ [][NextNormalize]_vars

----------------------------------------------------------------------------
(* Calls of get_normalizer and robust_winnowing made one after another by   *)
(* one process.  c_last is the latest call with what it gave, c_table the   *)
(* identifier table (seen, var_id) the latest normalize call of the process *)
(* ended with, c_found the table that the latest call found when it began.  *)

\* raw texts handed to robust_winnowing
RawTexts ==
    { <<>>,
      <<"1">>,
      <<"x">>,
      <<"y","(","x",")">>,
      <<"i","f"," ","x",":"," ","y","=","1">> }

\* language strings: the three supported ones and others
Languages == {"python", "cpp", "c", "javascript", "Python", ""}

\* k and window_size of a call, degenerate values included
CallK == {0, 2}

CallW == {0 - 1, 1, 3}

InitPipeline ==
    /\ CallIdle
    /\ CfgIdle
    /\ WinIdle
    /\ DocIdle
    /\ DetIdle
    /\ NormIdle

\* get_normalizer(language), called directly
CallGetNormalizer ==
    /\ \E language \in Languages :
         LET r == get_normalizer(language) IN
         c_last' = [fn |-> "get_normalizer", text |-> <<>>,
                    language |-> language, k |-> 0, w |-> 0,
                    raised |-> r.raised, value |-> r.value]
    /\ c_found' = c_table
    /\ UNCHANGED c_table
    /\ UNCHANGED <<winVars, docVars, detVars, normVars, cfgVars>>

\* robust_winnowing(text, language, k, window_size)
CallRobustWinnowing ==
    /\ \E s \in RawTexts, language \in Languages, kk \in CallK, w \in CallW :
         LET r == robust_winnowing(s, language, kk, w, c_table) IN
         /\ c_last' = [fn |-> "robust_winnowing", text |-> s,
                       language |-> language, k |-> kk, w |-> w,
                       raised |-> r.raised, value |-> r.value]
         /\ c_table' = r.table
    /\ c_found' = c_table
    /\ UNCHANGED <<winVars, docVars, detVars, normVars, cfgVars>>

NextPipeline == CallGetNormalizer \/ CallRobustWinnowing

SpecPipeline == InitPipeline /\ [][NextPipeline]_vars

----------------------------------------------------------------------------
(* Properties of the winnowing functions *)

\* a and b contain a common contiguous substring of length n >= 1
CommonSubstring(a, b, n) ==
    \E x \in 1..(Len(a) - n + 1), y \in 1..(Len(b) - n + 1) :
        SubSeq(a, x, x + n - 1) = SubSeq(b, y, y + n - 1)

\* C1 - detection guarantee: when both documents are fingerprinted with
\* k >= 1 and w >= 1 and their canonical texts share a contiguous substring
\* of length >= k + w - 1, the two fingerprint sets have a common value.
C1_DetectionGuarantee ==
    (/\ doc_done = {1, 2}
     /\ doc_k >= 1
     /\ doc_w >= 1
     /\ CommonSubstring(doc_text[1], doc_text[2], doc_k + doc_w - 1))
    => doc_fp[1] \cap doc_fp[2] # {}

\* C1 witness: two different texts of different length sharing a substring of
\* length k + w - 1 >= 3 at different offsets, with different fingerprint sets
C1_Witness ==
    /\ doc_done = {1, 2}
    /\ doc_k >= 2
    /\ doc_w >= 2
    /\ Len(doc_text[1]) < Len(doc_text[2])
    /\ CommonSubstring(doc_text[1], doc_text[2], doc_k + doc_w - 1)
    /\ SubSeq(doc_text[2], 1, Len(doc_text[1])) # doc_text[1]
    /\ doc_fp[1] # doc_fp[2]
    /\ doc_fp[1] \cap doc_fp[2] # {}

\* the minimum of the window of w hashes starting at 0-based position i
WindowMin(hs, i, w) ==
    CHOOSE v \in {hs[j] : j \in (i + 1)..(i + w)} :
        \A j \in (i + 1)..(i + w) : v <= hs[j]

SelectReturned == pc = "done" /\ entry # "rolling_hash"

\* C2 - for 1 <= w <= len(hashes), select_fingerprints returns exactly the
\* set of the minima of all windows of w consecutive hashes.
C2_WindowMinima ==
    (/\ SelectReturned
     /\ 1 <= window_size
     /\ window_size <= Len(hashes))
    => fingerprints = {WindowMin(hashes, i, window_size) :
                           i \in 0..(Len(hashes) - window_size)}

\* C2 witness: several windows, a minimum that stays the tracked one, and a
\* result with more than one value that leaves some hash value out
C2_Witness ==
    /\ SelectReturned
    /\ window_size >= 2
    /\ Len(hashes) >= window_size + 2
    /\ Cardinality(fingerprints) >= 2
    /\ \E j \in 1..Len(hashes) : hashes[j] \notin fingerprints

\* C3 - select_fingerprints returns the empty set and raises nothing when
\* hashes is empty, window_size <= 0 or window_size > len(hashes).
C3_DegenerateEmpty ==
    (/\ SelectReturned
     /\ \/ hashes = <<>>
        \/ window_size <= 0
        \/ window_size > Len(hashes))
    => (fingerprints = {} /\ raised = "none")

\* C3 witness: a non-empty hash list and a positive window that does not fit
C3_Witness ==
    /\ SelectReturned
    /\ hashes # <<>>
    /\ window_size > Len(hashes)
    /\ fingerprints = {}

\* C3 witness of the other degenerate case: a non-positive window
C3_WitnessNonPositive ==
    /\ SelectReturned
    /\ hashes # <<>>
    /\ window_size <= 0
    /\ fingerprints = {}

KgramsReturned == entry = "get_kgrams" /\ pc # "get_kgrams"

\* C4 - get_kgrams returns the empty list when text is empty, k <= 0 or
\* k > len(text); otherwise exactly len(text) - k + 1 slices in order, slice i
\* being text[i : i + k], each of length k.
C4_KgramsReference ==
    KgramsReturned =>
        IF text = <<>> \/ k <= 0 \/ k > Len(text)
        THEN kgrams = <<>>
        ELSE /\ Len(kgrams) = Len(text) - k + 1
             /\ \A j \in 1..Len(kgrams) :
                    /\ Len(kgrams[j]) = k
                    /\ \A c \in 1..k : kgrams[j][c] = text[j - 1 + c]

\* C4 witness: several overlapping k-grams of length >= 2
C4_Witness ==
    /\ KgramsReturned
    /\ k >= 2
    /\ Len(kgrams) >= 3
    /\ kgrams[1] # kgrams[2]

\* C4 witness of the boundary: k = len(text) gives one k-gram
C4_WitnessWholeText ==
    /\ KgramsReturned
    /\ k = Len(text)
    /\ k >= 2
    /\ kgrams = <<text>>

RECURSIVE IntPow(_, _)
\* b^e in the integers
IntPow(b, e) == IF e = 0 THEN 1 ELSE b * IntPow(b, e - 1)

RECURSIVE PolySum(_, _, _)
\* sum over the characters j..len of ord(c_j) * b^(len - j)
PolySum(gram, j, b) ==
    IF j > Len(gram) THEN 0
    ELSE gram[j] * IntPow(b, Len(gram) - j) + PolySum(gram, j + 1, b)

\* the direct polynomial hash of one k-gram
DirectHash(gram, b, p) == PolySum(gram, 1, b) % p

HashesReturned ==
    /\ entry = "get_kgrams"
    /\ pc \notin {"get_kgrams", "rolling_hash"}

\* C5 - rolling-hash agreement: for k-grams produced by get_kgrams (k >= 1,
\* positive base and prime) rolling_hash raises nothing, returns one hash per
\* k-gram in order, and hash i is the direct polynomial hash of k-gram i; the
\* empty k-gram list gives the empty list.
C5_RollingHashAgreement ==
    HashesReturned =>
        /\ raised = "none"
        /\ Len(hashes) = Len(kgrams)
        /\ \A j \in 1..Len(kgrams) : hashes[j] = DirectHash(kgrams[j], base, prime)

\* C5 witness: a rolled hash (not the first) whose intermediate difference
\* h - out_char * base^(k-1) was negative
C5_Witness ==
    /\ HashesReturned
    /\ k >= 2
    /\ Len(hashes) >= 3
    /\ hashes[2] # hashes[3]
    /\ \E j \in 2..Len(hashes) :
           hashes[j - 1] - kgrams[j - 1][1] * ModPow(base, k - 1, prime) < 0

\* C5 witness of the degenerate case: no k-gram, no hash
C5_WitnessEmpty ==
    /\ HashesReturned
    /\ text # <<>>
    /\ kgrams = <<>>
    /\ hashes = <<>>

SameLength(kg) == \A a \in 1..Len(kg), b \in 1..Len(kg) : Len(kg[a]) = Len(kg[b])

\* C6 - rolling_hash raises ValueError whenever the k-grams are not all of the
\* same length, wherever the odd one sits, and returns no hash list then.
C6_InconsistentLengthRaises ==
    (/\ pc \notin {"get_kgrams", "rolling_hash"}
     /\ ~SameLength(kgrams))
    => (pc = "raised" /\ raised = "ValueError" /\ hashes = <<>>)

\* C6 witness: the odd-length k-gram is the last of three and is longer
C6_Witness ==
    /\ pc = "raised"
    /\ raised = "ValueError"
    /\ Len(kgrams) = 3
    /\ Len(kgrams[1]) = Len(kgrams[2])
    /\ Len(kgrams[3]) > Len(kgrams[1])
    /\ Len(kgrams[1]) >= 1

----------------------------------------------------------------------------
(* Properties of the comparator *)

\* a scan has finished and no repository has been fingerprinted since
ScanDone == scans >= 1 /\ det_pc \in {"export", "idle"}

\* the entries (repository, file, fingerprint set) the scan went over
Entries == AllFiles(repo_fingerprints)

\* the records the latest scan appended
ScanRecords == SubSeq(results, scan_base + 1, Len(results))

\* the record is one for the unordered pair of entries x, y
RecordOf(rec, x, y) ==
    {rec.file_1, rec.file_2} = {FmtPath(x.id, x.fname), FmtPath(y.id, y.fname)}

ConfiguredThreshold == IF config.threshold = <<>> THEN <<1, 2>> ELSE config.threshold

\* |A \cap B| / |A \cup B| >= threshold, both sets non-empty
Qualifies(x, y) ==
    /\ x.fp # {}
    /\ y.fp # {}
    /\ Cardinality(x.fp \cap y.fp) * ConfiguredThreshold[2]
           >= ConfiguredThreshold[1] * Cardinality(x.fp \cup y.fp)

\* C7 - completeness and soundness: after a scan that started with empty
\* results, results holds a record for an unordered pair of distinct entries
\* (two files of one submission included) if and only if both fingerprint
\* sets are non-empty and their Jaccard similarity is >= threshold (inclusive).
C7_ReportedIffQualifies ==
    (ScanDone /\ scan_base = 0) =>
        \A i \in 1..Len(Entries), j \in 1..Len(Entries) :
            i < j =>
                ((\E n \in 1..Len(results) : RecordOf(results[n], Entries[i], Entries[j]))
                 <=> Qualifies(Entries[i], Entries[j]))

\* C7 witness: under the default threshold 1/2 a pair of two files of the same
\* submission scores exactly 1/2 and is reported, a pair of non-empty sets
\* scoring less is not
C7_Witness ==
    /\ ScanDone
    /\ scan_base = 0
    /\ config.threshold = <<>>
    /\ \E i \in 1..Len(Entries), j \in 1..Len(Entries) :
           /\ i < j
           /\ Entries[i].id = Entries[j].id
           /\ 2 * Cardinality(Entries[i].fp \cap Entries[j].fp)
                  = Cardinality(Entries[i].fp \cup Entries[j].fp)
           /\ \E n \in 1..Len(results) : RecordOf(results[n], Entries[i], Entries[j])
    /\ \E i \in 1..Len(Entries), j \in 1..Len(Entries) :
           /\ i < j
           /\ Entries[i].fp # {}
           /\ Entries[j].fp # {}
           /\ Entries[i].fp \cap Entries[j].fp = {}
           /\ ~\E n \in 1..Len(results) : RecordOf(results[n], Entries[i], Entries[j])

\* C8 - within one scan no unordered pair is recorded twice, in either
\* orientation, and no record pairs an entry with itself.
C8_EachPairOnce ==
    ScanDone =>
        \A a \in 1..Len(ScanRecords) :
            /\ ScanRecords[a].file_1 # ScanRecords[a].file_2
            /\ \A b \in 1..Len(ScanRecords) :
                   a # b => {ScanRecords[a].file_1, ScanRecords[a].file_2}
                                # {ScanRecords[b].file_1, ScanRecords[b].file_2}

\* C8 witness: a scan over four entries that recorded all six pairs
C8_Witness ==
    /\ ScanDone
    /\ Len(Entries) = 4
    /\ Len(ScanRecords) = 6

\* C9 - a pair with an empty fingerprint set produces no record, whatever the
\* threshold: every record of the scan names two entries with non-empty sets.
C9_EmptyNeverReported ==
    ScanDone =>
        \A n \in 1..Len(ScanRecords), e \in 1..Len(Entries) :
            FmtPath(Entries[e].id, Entries[e].fname)
                    \in {ScanRecords[n].file_1, ScanRecords[n].file_2}
                => Entries[e].fp # {}

\* C9 witness: threshold 0, two entries with empty sets and two with non-empty
\* ones; only the pair of the non-empty ones is recorded
C9_Witness ==
    /\ ScanDone
    /\ config.threshold = <<0, 1>>
    /\ Len(Entries) = 4
    /\ Cardinality({e \in 1..Len(Entries) : Entries[e].fp = {}}) = 2
    /\ Len(ScanRecords) = 1

\* C10 - Jaccard bounds: for two non-empty fingerprint sets the similarity
\* lies in [0, 1], is 1 exactly when the sets are equal and 0 exactly when
\* they are disjoint; the similarity a record stores obeys the same.
C10_JaccardBounds ==
    ScanDone =>
        \A i \in 1..Len(Entries), j \in 1..Len(Entries) :
            (i < j /\ Entries[i].fp # {} /\ Entries[j].fp # {}) =>
                LET jac == Jaccard(Entries[i].fp, Entries[j].fp)
                    same == Entries[i].fp = Entries[j].fp
                    disjoint == Entries[i].fp \cap Entries[j].fp = {}
                IN  /\ jac.den > 0
                    /\ 0 <= jac.num
                    /\ jac.num <= jac.den
                    /\ (jac.num = jac.den) <=> same
                    /\ (jac.num = 0) <=> disjoint
                    /\ \A n \in 1..Len(ScanRecords) :
                           RecordOf(ScanRecords[n], Entries[i], Entries[j]) =>
                               /\ ScanRecords[n].similarity \in 0..10000
                               /\ (ScanRecords[n].similarity = 10000) <=> same
                               /\ (ScanRecords[n].similarity = 0) <=> disjoint

\* C10 witness: threshold 0; records with similarity 1.0 (two files with the
\* same fingerprints), 0.5 and 0.0 (disjoint non-empty sets)
C10_Witness ==
    /\ ScanDone
    /\ config.threshold = <<0, 1>>
    /\ \E a \in 1..Len(ScanRecords) : ScanRecords[a].similarity = 10000
    /\ \E a \in 1..Len(ScanRecords) : ScanRecords[a].similarity = 5000
    /\ \E a \in 1..Len(ScanRecords) : ScanRecords[a].similarity = 0

----------------------------------------------------------------------------
(* Properties of the normalizers *)

\* the canonical text of s for a normalizer of class cls
Canonical(cls, s) == normalize(cls, s, NoTable).text

\* normalize has returned; n_text is the canonical text
Normalized == n_pc = "done"

\* the words of a text: its maximal runs of word characters, in order
RECURSIVE Words(_, _)
Words(s, i) ==
    IF i > Len(s) THEN <<>>
    ELSE IF IsWord(s[i])
         THEN LET e == ClassRun(s, i, az \cup AZ \cup d09 \cup {"_"}) IN
              <<SubSeq(s, i, e - 1)>> \o Words(s, e)
         ELSE Words(s, i + 1)

\* the words a lexeme stands for outside comments, each with its role; a
\* literal stands for one word, its marker
LexemeWords(lx) ==
    IF lx.kind = "ident" THEN <<[role |-> "user", word |-> lx.body]>>
    ELSE IF lx.kind \in {"keyword", "marker", "number"}
         THEN <<[role |-> lx.kind, word |-> lx.body]>>
    ELSE IF lx.kind = "string"
         THEN <<[role |-> "literal", word |-> <<"_","S","T","R">>]>>
    ELSE IF lx.kind = "char"
         THEN <<[role |-> "literal", word |-> <<"_","C">>]>>
    ELSE IF lx.kind = "define"
         THEN <<[role |-> "directive", word |-> Tail(Define)],
                [role |-> "macro", word |-> lx.body]>>
    ELSE <<>>

RECURSIVE InWords(_)
InWords(toks) ==
    IF toks = <<>> THEN <<>>
    ELSE LexemeWords(Head(toks)) \o InWords(Tail(toks))

\* ---- C11

\* names a renaming may give to user identifiers
UserNames == { <<"x">>, <<"y">>, <<"_","v","1">> }

\* the consistent one-to-one renamings
Renamings ==
    { f \in [UserNames -> UserNames] :
        \A a \in UserNames, b \in UserNames : f[a] = f[b] => a = b }

RenameTokens(toks, f) ==
    [j \in 1..Len(toks) |->
        IF toks[j].kind = "ident"
        THEN [toks[j] EXCEPT !.body = f[toks[j].body]]
        ELSE toks[j]]

\* C11: Identifier-renaming invariance.  For each normalizer, a text and the
\* text obtained from it by a consistent one-to-one renaming of its user
\* identifiers (names of the form _v<n> included) normalize to the same
\* canonical text.
C11_RenamingInvariance ==
    Normalized =>
        \A f \in Renamings :
            Canonical(n_class, Render(RenameTokens(n_tokens, f))) = n_text

\* ---- C12

IsPlaceholderWord(w) ==
    /\ Len(w) >= 3
    /\ w[1] = "_"
    /\ w[2] = "v"
    /\ \A j \in 3..Len(w) : w[j] \in d09

\* the identifiers of the input, in order: the user identifiers and the
\* word define of a #define line, which is neither keyword nor marker
IsIdentifierWord(r) == r.role \in {"user", "directive"}

\* position of the first occurrence of the word at position p
FirstOccurrence(u, p) == CHOOSE q \in 1..p :
    /\ u[q].word = u[p].word
    /\ \A m \in 1..(q - 1) : u[m].word # u[p].word

\* number of distinct identifiers up to the first occurrence of the one at p
FirstRank(u, p) == Cardinality({ u[q].word : q \in 1..FirstOccurrence(u, p) })

ExpectedPlaceholders(toks) ==
    LET u == SelectSeq(InWords(toks), IsIdentifierWord) IN
    [p \in 1..Len(u) |-> Placeholder(FirstRank(u, p))]

\* C12: Placeholder assignment.  The placeholders of the canonical text, read
\* left to right, are those of the identifier occurrences of the input: the
\* same identifier always has the same placeholder, distinct identifiers
\* have distinct placeholders, and the placeholders are _v1, _v2, ...
\* numbered from 1 in the order of first occurrence, also when the input has
\* identifiers spelled like placeholders.
C12_PlaceholderAssignment ==
    Normalized =>
        SelectSeq(Words(n_text, 1), IsPlaceholderWord)
            = ExpectedPlaceholders(n_tokens)

\* ---- C13

\* the quote of the other kind
OtherQuote(q) == IF q = "\"" THEN "'" ELSE "\""

\* bodies a literal delimited by q may have: plain text, comment markers, a
\* quote of the other kind, an escaped quote
LiteralBodies(lx) ==
    LET q == lx.open[1] IN
    IF lx.kind = "string"
    THEN { <<"a">>, <<"b","b">>, <<"/","/">>, <<"/","*">>, <<"#">>,
           <<OtherQuote(q)>>, <<"\\", q>> }
    ELSE { <<"a">>, <<"b">>, <<OtherQuote(q)>>, <<"\\", q>> }

\* C13: Literal-content invariance.  For each normalizer, changing the
\* characters between the delimiters of a string literal (for C/C++ also of
\* a character literal) does not change the canonical text, also when the
\* new content holds a comment marker, a quote of the other kind or an
\* escaped quote.
C13_LiteralInvariance ==
    Normalized =>
        \A j \in 1..Len(n_tokens) :
            n_tokens[j].kind \in {"string", "char"} =>
                \A b \in LiteralBodies(n_tokens[j]) :
                    Canonical(n_class,
                              Render([n_tokens EXCEPT ![j].body = b])) = n_text

\* ---- C14

Blank(chars) == Word("space", chars)

\* amounts and kinds of whitespace
Blanks == { <<" ">>, <<"\n">>, <<"\t">>, <<" "," ">> }

\* the layouts of the same token sequence: other whitespace where there is
\* whitespace, whitespace before the first or after the last token, spaces
\* around a punctuation character
Layouts(toks) ==
    { [toks EXCEPT ![j] = Blank(b)] :
        j \in { m \in 1..Len(toks) : toks[m].kind = "space" }, b \in Blanks }
    \cup { <<Blank(b)>> \o toks : b \in Blanks }
    \cup { toks \o <<Blank(b)>> : b \in Blanks }
    \cup { SubSeq(toks, 1, j - 1) \o <<Blank(<<" ">>), toks[j], Blank(<<" ">>)>>
           \o SubSeq(toks, j + 1, Len(toks)) :
           j \in { m \in 1..Len(toks) : toks[m].kind = "punct" } }

\* C14: Formatting invariance.  For each normalizer, two texts of the same
\* token sequence that differ only in the whitespace between tokens, before
\* the first or after the last token, or in the spaces around punctuation
\* normalize to the same canonical text.
C14_FormattingInvariance ==
    Normalized =>
        \A v \in Layouts(n_tokens) : Canonical(n_class, Render(v)) = n_text

\* ---- C15

\* no whitespace at either end and no two whitespace characters in a row
Trimmed(s) ==
    /\ s # <<>> => s[1] \notin whitespace /\ s[Len(s)] \notin whitespace
    /\ \A j \in 1..(Len(s) - 1) :
           ~(s[j] \in whitespace /\ s[j + 1] \in whitespace)

\* the input is empty, only whitespace or only comments
OnlyBlank(toks) ==
    \A j \in 1..Len(toks) : toks[j].kind \in {"space", "comment"}

\* C15: the canonical text never starts or ends with whitespace and never
\* has two whitespace characters in a row, for both normalizers; an input
\* that is empty, only whitespace or only comments gives the empty string.
C15_TrimmedCanonicalText ==
    Normalized =>
        /\ Trimmed(n_text)
        /\ OnlyBlank(n_tokens) => n_text = <<>>

\* ---- C16

\* the protected set the active normalizer tests identifiers against
ProtectedWords(cls) ==
    IF cls = "PythonNormalizer" THEN protected
    ELSE cpp_keywords \cup cpp_placeholders

\* C16: Keyword preservation.  Every whole-word token of the input outside
\* comments and literals that is in the protected set of the active
\* normalizer, or consists of digits only, is found unchanged at the same
\* word position of the canonical text (a literal counts as one word).
C16_KeywordPreservation ==
    Normalized =>
        LET iw == InWords(n_tokens)
            ow == Words(n_text, 1) IN
        \A p \in 1..Len(iw) :
            ( /\ iw[p].role \in {"keyword", "marker", "number"}
              /\ iw[p].word \in ProtectedWords(n_class) \/ IsDigit(iw[p].word) )
            => p <= Len(ow) /\ ow[p] = iw[p].word

\* ---- C17

\* characters of the comment delimiters of the language
CommentMarks(cls) == IF cls = "PythonNormalizer" THEN {"#"} ELSE {"/", "*"}

\* the text inside the comments of the input
CommentText(toks) ==
    UNION { { toks[j].body[m] : m \in 1..Len(toks[j].body) } :
            j \in { m \in 1..Len(toks) : toks[m].kind = "comment" } }

OnlyComments(toks) ==
    /\ toks # <<>>
    /\ \A j \in 1..Len(toks) : toks[j].kind = "comment"

\* C17: Comment removal.  The canonical text holds no character that was
\* inside a comment and no character of a comment delimiter, a block
\* comment is removed as a whole also when a single-line comment marker is
\* inside it, and an input of comments only gives the empty string.  (In the
\* inputs explored the characters of comment bodies and delimiters occur
\* nowhere outside comments.)
C17_CommentRemoval ==
    Normalized =>
        /\ \A j \in 1..Len(n_text) :
               n_text[j] \notin CommentText(n_tokens) \cup CommentMarks(n_class)
        /\ OnlyComments(n_tokens) => n_text = <<>>

\* ---- C18

Macro == <<"_","M","A","C","R","O">>

\* the macro step changes nothing but the word after define, and that one
\* to _MACRO
MacroStepOnlyNames(before, after) ==
    /\ Len(after) = Len(before)
    /\ \A p \in 1..Len(before) :
           after[p] # before[p] =>
               p > 1 /\ before[p - 1] = Tail(Define) /\ after[p] = Macro

\* C18: for the C/C++ normalizer the name of every #define line (upper-case,
\* lower-case or mixed-case) is _MACRO after the macro step and still _MACRO
\* in the canonical text, and the macro step alters no other word.
C18_MacroNames ==
    n_class = "CppNormalizer" =>
        /\ n_pc \in {"identifiers", "done"} =>
               LET iw == InWords(n_tokens)
                   ow == Words(n_text, 1) IN
               \A p \in 1..Len(iw) :
                   iw[p].role = "macro" => p <= Len(ow) /\ ow[p] = Macro
        /\ n_pc = "macros" =>
               MacroStepOnlyNames(Words(n_text, 1), Words(CppMacros(n_text), 1))

----------------------------------------------------------------------------
(* Properties of the fingerprinting pipeline *)

\* the latest call was robust_winnowing
Winnowed == c_last.fn = "robust_winnowing"

\* what the same call gives in a process that has normalized nothing before
FirstCall(call) ==
    robust_winnowing(call.text, call.language, call.k, call.w, NoTable)

SameArguments(a, b) ==
    /\ a.text = b.text
    /\ a.language = b.language
    /\ a.k = b.k
    /\ a.w = b.w

\* C19: Determinism and purity.  Whatever was normalized or fingerprinted
\* before, robust_winnowing gives what the same call gives in a process that
\* has normalized nothing yet (the identifier table and the placeholder
\* counter start fresh on every normalize call), and a call repeated with
\* the same arguments gives the same result again.
C19_Determinism ==
    /\ [](Winnowed =>
            /\ c_last.raised = FirstCall(c_last).raised
            /\ c_last.value = FirstCall(c_last).value)
    /\ [][(Winnowed /\ Winnowed' /\ SameArguments(c_last, c_last')) =>
            /\ c_last'.raised = c_last.raised
            /\ c_last'.value = c_last.value]_vars

\* a text with identifiers is fingerprinted after a text with other
\* identifiers was normalized by the same process
C19_Witness ==
    /\ Winnowed
    /\ c_last.raised = "none"
    /\ c_last.value # {}
    /\ c_found.seen # <<>>
    /\ c_table.seen # <<>>
    /\ c_found.seen # c_table.seen

\* the languages that are supported
Supported == {"python", "cpp", "c"}

\* C20: get_normalizer raises ValueError for every language string other
\* than exactly 'python', 'cpp' and 'c', and for such a language
\* robust_winnowing raises the same error for every text, k and window size
\* and returns no fingerprint set.
C20_UnsupportedLanguage ==
    /\ c_last.fn = "get_normalizer" =>
           (c_last.raised = "ValueError" <=> c_last.language \notin Supported)
    /\ (Winnowed /\ c_last.language \notin Supported) =>
           /\ c_last.raised = "ValueError"
           /\ c_last.value = <<>>

\* robust_winnowing of the empty text with a degenerate k in an unsupported
\* language
C20_Witness ==
    /\ Winnowed
    /\ c_last.language = "javascript"
    /\ c_last.text = <<>>
    /\ c_last.k = 0
    /\ c_last.w = 0 - 1
    /\ c_last.raised = "ValueError"

\* the canonical text of a call, as the character codes get_kgrams receives
CallCanonical(call) ==
    Codes(normalize(get_normalizer(call.language).value, call.text, NoTable).text)

\* the k-grams and the hashes of a call
CallKgrams(call) == get_kgrams(CallCanonical(call), call.k)

CallHashes(call) == rolling_hash(CallKgrams(call), DefaultBase, DefaultPrime)

\* no k-gram can be cut: empty text, fewer than k characters, or k <= 0
NoKgramFits(call) ==
    \/ Len(CallCanonical(call)) = 0
    \/ Len(CallCanonical(call)) < call.k
    \/ call.k <= 0

\* no window can be laid: window_size <= 0 or more than there are k-grams
NoWindowFits(call) ==
    \/ call.w <= 0
    \/ call.w > Len(CallKgrams(call))

C21_WitnessWindow ==
    /\ Winnowed
    /\ c_last.language = "cpp"
    /\ c_last.text = <<"x">>
    /\ c_last.k = 2
    /\ c_last.w = 3
    /\ Len(CallKgrams(c_last)) = 2
    /\ c_last.value = {}

----------------------------------------------------------------------------
(* Range of the hash values *)

\* rolling_hash has returned a list
RollingHashReturned ==
    /\ entry \in {"get_kgrams", "rolling_hash"}
    /\ pc \notin {"get_kgrams", "rolling_hash"}
    /\ raised = "none"

\* the pipeline get_kgrams, rolling_hash, select_fingerprints has returned
PipelineReturned == entry = "get_kgrams" /\ pc = "done"

\* C30: every value rolling_hash(kgrams, base, prime) returns lies in
\* 0 .. prime-1 and is never negative, although the update subtracts
\* out_char * base^(k-1); so every fingerprint set of the pipeline is a subset
\* of 0 .. prime-1 (0 .. 100 with the default prime 101) and has at most
\* prime elements, whatever the length of the text.
C30_HashRange ==
    /\ RollingHashReturned =>
           \A j \in 1..Len(hashes) : hashes[j] >= 0 /\ hashes[j] <= prime - 1
    /\ PipelineReturned =>
           /\ fingerprints \subseteq 0..(prime - 1)
           /\ Cardinality(fingerprints) <= prime
           /\ prime = DefaultPrime => fingerprints \subseteq 0..100

\* a text with more k-grams than the prime has values: the update went
\* through a negative difference and the fingerprint set holds every value
\* of 0 .. prime-1
C30_Witness ==
    /\ PipelineReturned
    /\ k >= 2
    /\ prime > 1
    /\ Len(hashes) > prime
    /\ fingerprints = 0..(prime - 1)
    /\ \E j \in 2..Len(hashes) :
           hashes[j - 1] - kgrams[j - 1][1] * ModPow(base, k - 1, prime) < 0

\* the same with the default base and prime: a negative difference, values
\* within 0 .. 100
C30_WitnessDefault ==
    /\ PipelineReturned
    /\ base = DefaultBase
    /\ prime = DefaultPrime
    /\ Cardinality(fingerprints) >= 3
    /\ \E j \in 2..Len(hashes) :
           hashes[j - 1] - kgrams[j - 1][1] * ModPow(base, k - 1, prime) < 0

----------------------------------------------------------------------------
(* Properties of run() *)

\* the repositories the latest run() has taken the step ev for
RunSteps(ev) == {run_log[n].repo : n \in {x \in 1..Len(run_log) : run_log[x].ev = ev}}

\* the files of repository r that generate_fingerprints went over
Attempted(r) == repo_files[r].list

\* the file names that have an entry in repo.fingerprints
Fingerprinted(r) == {repo_fingerprints[r][e].fname : e \in 1..Len(repo_fingerprints[r])}

\* the record names the file f of repository r
Mentions(rec, r, f) == FmtPath(repositories[r], f) \in {rec.file_1, rec.file_2}

\* the comparison of the latest run() has just finished
RunCompared == det_pc = "export"

\* For every repository the latest run() fingerprinted: a file whose reading
\* or fingerprinting raised has no entry in repo.fingerprints and is named by
\* no record of the run's comparison; every other file has its entry, with
\* the set robust_winnowing returned
FailuresIsolated ==
    \A r \in RunSteps("generate") :
        \A n \in 1..Len(Attempted(r)) :
            LET f == Attempted(r)[n]
                o == ReadAndWinnow(disk[r], f)
            IN  IF o.ok
                THEN \E e \in 1..Len(repo_fingerprints[r]) :
                         /\ repo_fingerprints[r][e].fname = f
                         /\ repo_fingerprints[r][e].fp = o.fp
                ELSE /\ f \notin Fingerprinted(r)
                     /\ RunCompared =>
                            \A x \in 1..Len(ScanRecords) : ~Mentions(ScanRecords[x], r, f)

\* C22: per-file error isolation.  A file whose reading or fingerprinting
\* fails inside generate_fingerprints gets no entry in repo.fingerprints and
\* takes part in no comparison, every other file of the same and of every
\* other repository is still fingerprinted, and run() goes on to
\* compare_all_submissions and then to export_results.
C22_ErrorIsolation ==
    /\ []FailuresIsolated
    /\ (det_pc = "repos") ~> RunCompared
    /\ RunCompared ~> (det_pc = "idle" /\ run_log # <<>>
                          /\ run_log[Len(run_log)].ev = "export")

\* a run is past its comparison; in one repository the first file failed and
\* the second was fingerprinted, the other repository has a fingerprinted
\* file, and the two fingerprinted files were reported as a pair
C22_Witness ==
    /\ RunCompared
    /\ RunSteps("generate") = Repos
    /\ \E r \in Repos, q \in Repos :
          /\ r # q
          /\ Len(Attempted(r)) = 2
          /\ ~ReadAndWinnow(disk[r], Attempted(r)[1]).ok
          /\ Fingerprinted(r) = {Attempted(r)[2]}
          /\ Fingerprinted(q) # {}
          /\ \E x \in 1..Len(ScanRecords) :
                /\ Mentions(ScanRecords[x], r, Attempted(r)[2])
                /\ \E g \in Fingerprinted(q) : Mentions(ScanRecords[x], q, g)

----------------------------------------------------------------------------
(* Properties of the pipeline on a pair of documents *)

\* the k-grams of document d, as a set
KgramSet(d) ==
    LET kg == get_kgrams(doc_text[d], doc_k) IN {kg[n] : n \in 1..Len(kg)}

\* thresholds above 0, as fractions: 1/10000, 1/2, 1
PositiveThresholds == {<<1, 10000>>, <<1, 2>>, <<1, 1>>}

\* C23: scenario D.  Two canonical texts that have no k-gram in common get
\* disjoint fingerprint sets from the pipeline (rolling_hash with base 256 and
\* prime 101, then select_fingerprints), so their Jaccard similarity is 0 and
\* the pair meets no positive threshold.
C23_NoSharedKgrams ==
    (doc_done = {1, 2} /\ KgramSet(1) \cap KgramSet(2) = {}) =>
        /\ doc_fp[1] \cap doc_fp[2] = {}
        /\ (doc_fp[1] # {} /\ doc_fp[2] # {}) =>
               /\ Jaccard(doc_fp[1], doc_fp[2]).num = 0
               /\ \A thr \in PositiveThresholds :
                      ~AtLeast(Jaccard(doc_fp[1], doc_fp[2]), thr)

----------------------------------------------------------------------------
(* Properties of the configuration *)

\* the user configuration c sets the option, plainly or for the environment
Sets(c, option) ==
    option \in DOMAIN c \/ EnvOption(option, cfg_env) \in DOMAIN c

\* the user configurations that set the option, by index
Setting(option) == {n \in 1..Len(cfg_user) : Sets(cfg_user[n], option)}

\* the value the user has set: that of the configuration of highest priority
\* that sets the option, its value for the environment first
UserSetting(option) ==
    LET c == cfg_user[CHOOSE n \in Setting(option) : \A x \in Setting(option) : n <= x]
    IN  IF EnvOption(option, cfg_env) \in DOMAIN c
        THEN c[EnvOption(option, cfg_env)]
        ELSE c[option]

\* the defaults of the four options
ParameterDefaults ==
    [k |-> DefaultK, window |-> DefaultWindow, language |-> DefaultLanguage,
     threshold |-> DefaultThreshold]

\* C24: the values of k, window, language and threshold that the user's
\* configuration sets under plagiarism_detection are the values that
\* generate_fingerprints and compare_all_submissions read after the merge by
\* ConfigurationBasedObject; the defaults 25, 21, 'python' and 0.5 apply only
\* to an option the user has not set.
C24_UserParameters ==
    cfg_pc = "read" =>
        \A option \in DOMAIN ParameterDefaults :
            cfg_used[option] = IF Setting(option) # {} THEN UserSetting(option)
                               ELSE ParameterDefaults[option]

----------------------------------------------------------------------------
(* Properties of the loop of select_fingerprints and of the hash values *)

\* the loop of select_fingerprints has finished the iteration for window i
IterationDone(i) == pc = "select_loop" /\ win_i = i + 1

\* 0-based positions of the window that starts at i
WindowPositions(i) == i..(i + window_size - 1)

\* C25: tie-break of select_fingerprints.  At the end of the iteration for
\* window i the tracked position min_pos lies in [i, i+w-1], hashes[min_pos]
\* is the minimum of the window, and min_pos is the rightmost position of
\* the window holding that minimum, also after a recomputation.
C25_RightmostMinimum ==
    \A i \in 0..(Len(hashes) - 1) :
        IterationDone(i) =>
            /\ min_pos \in WindowPositions(i)
            /\ hashes[min_pos + 1] = WindowMin(hashes, i, window_size)
            /\ min_val = <<hashes[min_pos + 1]>>
            /\ \A j \in WindowPositions(i) :
                   hashes[j + 1] = hashes[min_pos + 1] => j <= min_pos

----------------------------------------------------------------------------
(* Properties of the order of the steps of run() *)

\* the positions of run_log at which the step ev was taken
StepsAt(ev) == {n \in 1..Len(run_log) : run_log[n].ev = ev}

\* the loop over self.repositories is through: every repository, in the order
\* of the list, was fingerprinted or skipped, each once
LoopThrough ==
    /\ Len(run_log) >= Len(repositories)
    /\ \A r \in Repos :
          /\ run_log[r].repo = r
          /\ run_log[r].ev \in {"generate", "skip"}

\* C26: barrier ordering in run().  compare_all_submissions starts only after
\* generate_fingerprints has finished, or the repository was skipped, for
\* every repository of self.repositories; it runs exactly once per run; and
\* export_results runs only after the comparison has finished.
C26_BarrierOrdering ==
    /\ \A n \in StepsAt("compare") : LoopThrough /\ n = Len(repositories) + 1
    /\ \A n \in StepsAt("export") :
          /\ n = Len(repositories) + 2
          /\ run_log[n - 1].ev = "compare"
    /\ (det_pc = "export" \/ StepsAt("export") # {}) =>
          Cardinality(StepsAt("compare")) = 1
    /\ det_pc = "repos" => StepsAt("compare") = {}
    /\ \A n \in StepsAt("generate") \cup StepsAt("skip") : n <= Len(repositories)

\* the second run of a detector has returned; it skipped one repository,
\* fingerprinted the other, compared and exported
C26_Witness ==
    /\ det_pc = "idle"
    /\ scans = 2
    /\ StepsAt("skip") # {}
    /\ StepsAt("generate") # {}
    /\ StepsAt("compare") = {Len(repositories) + 1}
    /\ StepsAt("export") = {Len(repositories) + 2}
    /\ Len(results) > scan_base

----------------------------------------------------------------------------
(* Properties of the comparator across scans *)

\* this step is a scan of compare_all_submissions
Scanned == scans' = scans + 1

\* C27: compare_all_submissions leaves every repo.fingerprints mapping and
\* every fingerprint set as it was: after the scan each (repository, file)
\* entry maps to the same set of values as before, and no entry was added
\* or removed.
C27_ScanLeavesFingerprints ==
    [][Scanned =>
          \A r \in Repos :
              /\ Len(repo_fingerprints'[r]) = Len(repo_fingerprints[r])
              /\ \A e \in 1..Len(repo_fingerprints[r]) :
                    /\ repo_fingerprints'[r][e].fname = repo_fingerprints[r][e].fname
                    /\ repo_fingerprints'[r][e].fp = repo_fingerprints[r][e].fp]_vars

\* a scan went over entries with empty and with non-empty sets, found pairs
\* with a common value and recorded them
C27_Witness ==
    /\ ScanDone
    /\ Len(ScanRecords) >= 2
    /\ \E i \in 1..Len(Entries) : Entries[i].fp = {}
    /\ \E i \in 1..Len(Entries), j \in 1..Len(Entries) :
          /\ i # j
          /\ Entries[i].fp # Entries[j].fp
          /\ Entries[i].fp \cap Entries[j].fp # {}

\* the unordered pair of files a record names
PairOf(rec) == {rec.file_1, rec.file_2}

\* C28: after any number of run() or compare_all_submissions() calls on the
\* same detector, self.results holds at most one record per unordered pair
\* of files: records of an earlier scan neither remain in nor are duplicated
\* into the results of a later scan.
C28_OneRecordPerPairAcrossScans ==
    \A a \in 1..Len(results), b \in 1..Len(results) :
        a # b => PairOf(results[a]) # PairOf(results[b])

\* the record names a file of repository r: file_1 or file_2 is f"{id}/..."
NamesRepository(rec, r) ==
    LET id == repositories[r] \o <<"/">> IN
    \E p \in {rec.file_1, rec.file_2} :
        Len(p) >= Len(id) /\ SubSeq(p, 1, Len(id)) = id

\* C29: a repository that run() skips in the current run (it is not in a
\* non-empty repo_filter, or its archive is corrupt) contributes no file to
\* the comparison of that run and appears in none of its records, also when
\* an earlier run of the same detector fingerprinted it.
C29_SkippedRepositoryLeftOut ==
    RunCompared =>
        \A r \in RunSteps("skip") :
            /\ \A i \in 1..Len(Entries) : Entries[i].id # repositories[r]
            /\ \A x \in 1..Len(ScanRecords) : ~NamesRepository(ScanRecords[x], r)

====
